---- MODULE Spec2Model ----
(***************************************************************************)
(* Model of scripts/fix_data.py of jwagsta/ukge: the election and boundary *)
(* documents under public/data, and the handlers that repair them          *)
(* (fix_election_files, fix_boundary_files, fix_winding_order,             *)
(* sync_boundary_names, validate, main).                                   *)
(*                                                                         *)
(* Representation.                                                         *)
(*  - A point is <<x, y>>: Python's p[0] is p[1] here, p[1] (the latitude) *)
(*    is p[2].  A ring is a sequence of points, a Polygon's coordinates a  *)
(*    sequence of rings, a MultiPolygon's a sequence of polygons.          *)
(*  - Coordinates are Python floats.  The model keeps the arithmetic of    *)
(*    binary floating point (every +, -, * and / is rounded to nearest,    *)
(*    ties to even) in a format with a MantBits-bit significand instead of *)
(*    53 bits and integers as the smallest spacing.                        *)
(*  - Names are sequences of one-character strings, so that the regular    *)
(*    expressions of normalize_constituency_name act on characters.        *)
(*  - A file is [exists, ...]; a boundary file holds data['features'].     *)
(*  - obj is the identity of the feature object json.load created (its     *)
(*    position in the file when it was first read); no handler reads it.   *)
(***************************************************************************)
EXTENDS Integers, Sequences, FiniteSets, TLC

VARIABLES
    boundaries,   \* version -> boundary file public/data/boundaries/<v>.json
    elections,    \* year string -> election file public/data/elections/<y>.json
    last,         \* the handler that ran last ("none" before any)
    before,       \* the files as they were when that handler started
    written,      \* the files that handler opened for writing
    fixes,        \* the value that handler returned (fixes_applied)
    report,       \* what validate printed, per election year
    error,        \* the exception that ended that handler, or "none"
    coastline,    \* the file reference_data/gb_coastline.geojson
    pc,           \* the running script and its position
    loaded,       \* the document clip_boundary_file holds in memory (data)
    warnings,     \* the WARNING lines the running script printed
    partial,      \* the boundary files that are open for writing: truncated on disk
    stages,       \* the stages the scripts have run, in order
    clip_result,  \* what clip_boundary_file returned, per file, in order
    norm          \* a pair of names and what normalize_constituency_name made of them

runvars == <<coastline, pc, loaded, warnings, partial, stages, clip_result, norm>>

vars == <<boundaries, elections, last, before, written, fixes, report, error, runvars>>

----------------------------------------------------------------------------
(* Bounds of the model *)

MantBits == 5        \* significand width of the modelled float format
MaxFeatures == 3     \* features per boundary document
MaxRings == 2        \* rings per polygon
MaxPolys == 2        \* polygons per MultiPolygon

----------------------------------------------------------------------------
(* Generic helpers *)

Reverse(s) == [i \in 1..Len(s) |-> s[Len(s) + 1 - i]]

Abs(x) == IF x < 0 THEN -x ELSE x

RECURSIVE Pow2(_)
Pow2(e) == IF e = 0 THEN 1 ELSE 2 * Pow2(e - 1)

RECURSIVE SeqsUpTo(_, _)
SeqsUpTo(S, n) ==
    IF n = 0 THEN {<<>>}
    ELSE LET shorter == SeqsUpTo(S, n - 1)
         IN  shorter \cup {Append(s, x) : s \in {t \in shorter : Len(t) = n - 1}, x \in S}

NonEmptySeqsUpTo(S, n) == SeqsUpTo(S, n) \ {<<>>}

----------------------------------------------------------------------------
(* Python float arithmetic, in a MantBits-bit format.                      *)
(* FlExp(a, d, 0) is the exponent e >= 0 of the binade of the rational    *)
(* a/d: the least e with a/d < 2^(MantBits + e),                           *)
(* FlRound(a, d) the representable number nearest to a/d (ties to even).   *)

\* 2^MantBits: below it every integer is representable
FlLimit == Pow2(MantBits)

RECURSIVE FlExp(_, _, _)
FlExp(a, d, e) == IF a < d * FlLimit * Pow2(e) THEN e ELSE FlExp(a, d, e + 1)

FlRoundPos(a, d) ==
    IF d = 1 /\ a < FlLimit THEN a
    ELSE LET den == d * Pow2(FlExp(a, d, 0))
             q == a \div den
             r == a % den
         IN  IF (2 * r > den) \/ (2 * r = den /\ q % 2 = 1)
             THEN (q + 1) * (den \div d)
             ELSE q * (den \div d)

FlRound(a, d) == IF a < 0 THEN -FlRoundPos(-a, d) ELSE FlRoundPos(a, d)

FAdd(x, y) == FlRound(x + y, 1)
FSub(x, y) == FlRound(x - y, 1)
FMul(x, y) == FlRound(x * y, 1)
FDiv(x, n) == FlRound(x, n)

Representable(x) == FlRound(x, 1) = x

----------------------------------------------------------------------------
(* fix_winding_order *)

\* The accumulator of ring_signed_area after its loop.  The source returns
\* area / 2; halving a binary float is exact and keeps the sign, and every
\* caller only compares the result with 0, so the model returns the sum.
RECURSIVE shoelace(_, _, _)
shoelace(ring, i, area) ==
    IF i > Len(ring) THEN area
    ELSE LET j == (i % Len(ring)) + 1
             a1 == FAdd(area, FMul(ring[i][1], ring[j][2]))
             a2 == FSub(a1, FMul(ring[j][1], ring[i][2]))
         IN  shoelace(ring, i + 1, a2)

ring_signed_area(ring) == shoelace(ring, 1, 0)

\* Outer ring (index 0 in the source, 1 here) is reversed when area > 0,
\* every other ring when area < 0.
ShouldRewind(i, ring) ==
    IF i = 1 THEN ring_signed_area(ring) > 0 ELSE ring_signed_area(ring) < 0

RewindRings(rings) ==
    [i \in 1..Len(rings) |-> IF ShouldRewind(i, rings[i]) THEN Reverse(rings[i]) ELSE rings[i]]

RewoundInRings(rings) == Cardinality({i \in 1..Len(rings) : ShouldRewind(i, rings[i])})

RECURSIVE SumOver(_, _)
SumOver(s, i) == IF i > Len(s) THEN 0 ELSE s[i] + SumOver(s, i + 1)

RewindGeometry(geom) ==
    IF geom.type = "Polygon"
    THEN [geom EXCEPT !.coordinates = RewindRings(geom.coordinates)]
    ELSE IF geom.type = "MultiPolygon"
    THEN [geom EXCEPT !.coordinates =
             [p \in 1..Len(geom.coordinates) |-> RewindRings(geom.coordinates[p])]]
    ELSE geom

RewoundInGeometry(geom) ==
    IF geom.type = "Polygon" THEN RewoundInRings(geom.coordinates)
    ELSE IF geom.type = "MultiPolygon"
    THEN SumOver([p \in 1..Len(geom.coordinates) |-> RewoundInRings(geom.coordinates[p])], 1)
    ELSE 0

RewindFeatures(features) ==
    [k \in 1..Len(features) |->
        [features[k] EXCEPT !.geometry = RewindGeometry(features[k].geometry)]]

RewoundInFeatures(features) ==
    SumOver([k \in 1..Len(features) |-> RewoundInGeometry(features[k].geometry)], 1)

----------------------------------------------------------------------------
(* Module-level tables of fix_data.py *)

Versions == {"1955", "1974", "1983", "1997", "2005", "2010", "2024"}

\* The versions in the order sorted() gives (and the literal list of
\* fix_winding_order).
VersionOrder == <<"1955", "1974", "1983", "1997", "2005", "2010", "2024">>

\* The keys of year_to_boundary in insertion order, which is also the order
\* sorted() gives them.
YearOrder == <<"1955", "1959", "1964", "1966", "1970", "197402", "197410", "1979",
               "1983", "1987", "1992", "1997", "2001", "2005",
               "2010", "2015", "2017", "2019", "2024">>

Years == {YearOrder[i] : i \in 1..Len(YearOrder)}

year_to_boundary ==
    [y \in Years |->
        IF y \in {"1955", "1959", "1964", "1966", "1970"} THEN "1955"
        ELSE IF y \in {"197402", "197410", "1979"} THEN "1974"
        ELSE IF y \in {"1983", "1987", "1992"} THEN "1983"
        ELSE IF y \in {"1997", "2001"} THEN "1997"
        ELSE IF y = "2005" THEN "2005"
        ELSE IF y \in {"2010", "2015", "2017", "2019"} THEN "2010"
        ELSE "2024"]

\* the table without the entry of 2005
BOUNDARY_VERSION_FIXES_Without2005 ==
    ("1955" :> "1955") @@ ("1959" :> "1955") @@ ("1964" :> "1955")
    @@ ("1966" :> "1955") @@ ("1970" :> "1955")

BOUNDARY_VERSION_FIXES ==
    ("1955" :> "1955") @@ ("1959" :> "1955") @@ ("1964" :> "1955")
    @@ ("1966" :> "1955") @@ ("1970" :> "1955") @@ ("2005" :> "2005")

YEAR_ENCODING_FIXES == ("197402" :> 197402) @@ ("197410" :> 197410)

WOODFORD_RENAME_YEARS == {"1955", "1959"}

RICHMOND_SPLIT_VERSIONS == {"1955", "1974"}

EMPTY_FEATURE_VERSIONS == {"1997", "2005"}

DEDUP_VERSIONS == {"2010"}

known_exceptions ==
    {<<"1992", "EC_MILTON_KEYNES_NORTH_EAST">>, <<"1992", "EC_MILTON_KEYNES_SOUTH_WEST">>}

\* lat > 53 in the Richmond split
RichmondLat == 53

\* sorted(...)[:10] in validate's report
ReportLimit == 10

Renames1955 ==
    ("EC_BARON_S_COURT" :> "EC_BARONS_COURT")
    @@ ("EC_BUTE_AND_AYRSHIRE_NORTH" :> "EC_AYRSHIRE_NORTH_AND_BUTE")
    @@ ("EC_CITIES_OF_LONDON_AND_WESTMISTER" :> "EC_CITIES_OF_LONDON_AND_WESTMINSTER")
    @@ ("EC_CITY_OF_CHESTER" :> "EC_CHESTER__CITY_OF")
    @@ ("EC_CLACKMANNAN_AND_EAST_STIRLINGSHIRE" :> "EC_STIRLINGSHIRE_EAST_AND_CLACKMANNAN")
    @@ ("EC_DUNFERMLINE_BURGHS" :> "EC_DUNFERMLINE")
    @@ ("EC_DURHAM" :> "EC_DURHAM__CITY_OF")
    @@ ("EC_KINGSTON_UPON_HULL_EAST" :> "EC_HULL_EAST")
    @@ ("EC_KINGSTON_UPON_HULL_NORTH" :> "EC_HULL_NORTH")
    @@ ("EC_KINGSTON_UPON_HULL_WEST" :> "EC_HULL_WEST")
    @@ ("EC_KIRKCALDY_BURGHS" :> "EC_KIRKCALDY")
    @@ ("EC_LLANELLY" :> "EC_LLANELLI")
    @@ ("EC_MANSFIIELD" :> "EC_MANSFIELD")
    @@ ("EC_STRATFORD" :> "EC_STRATFORD_ON_AVON")
    @@ ("EC_THE_HARTLEPOOLS" :> "EC_HARTLEPOOLS__THE")
    @@ ("EC_THE_WREKIN" :> "EC_WREKIN__THE")
    @@ ("EC_WOLVERHAMTON_NORTH_EAST" :> "EC_WOLVERHAMPTON_NORTH_EAST")
    @@ ("EC_WOLVERHAMTON_SOUTH_WEST" :> "EC_WOLVERHAMPTON_SOUTH_WEST")
    @@ ("EC__WANSTEAD_AND___WOODFORD" :> "EC_WANSTEAD_AND_WOODFORD")
    @@ ("EC_YORK" :> "EC_YORK__CITY_OF")

Renames1974 ==
    ("EC_ASHTON_UNDER_LINE" :> "EC_ASHTON_UNDER_LYNE")
    @@ ("EC_BIRMINGHA_SELLY_OAK" :> "EC_BIRMINGHAM_SELLY_OAK")
    @@ ("EC_BUTE_AND_AYRSHIRE_NORTH" :> "EC_AYRSHIRE_NORTH_AND_BUTE")
    @@ ("EC_CITY_OF_CHESTER" :> "EC_CHESTER__CITY_OF")
    @@ ("EC_CITY_OF_LONDON_AND_WESTMISTER_SOUTH" :> "EC_CITY_OF_LONDON_AND_WESTMINSTER_SOUTH")
    @@ ("EC_CLACKMANNAN_AND_EAST_STIRLINGSHIRE" :> "EC_STIRLINGSHIRE_EAST_AND_CLACKMANNAN")
    @@ ("EC_DURHAM" :> "EC_DURHAM__CITY_OF")
    @@ ("EC_GASGOW_SHETTLESTON" :> "EC_GLASGOW_SHETTLESTON")
    @@ ("EC_KINGSTON_UPON_HULL_CENTRAL" :> "EC_HULL_CENTRAL")
    @@ ("EC_KINGSTON_UPON_HULL_EAST" :> "EC_HULL_EAST")
    @@ ("EC_KINGSTON_UPON_HULL_WEST" :> "EC_HULL_WEST")
    @@ ("EC_NOTTINGHSM_WEST" :> "EC_NOTTINGHAM_WEST")
    @@ ("EC_OXON_MID" :> "EC_OXFORDSHIRE_MID")
    @@ ("EC_ROYAL_TUNBRIDGE_WELLS" :> "EC_TUNBRIDGE_WELLS")
    @@ ("EC_THE_WREKIN" :> "EC_WREKIN__THE")
    @@ ("EC_WOLVERHAMTON_NORTH_EAST" :> "EC_WOLVERHAMPTON_NORTH_EAST")
    @@ ("EC_YORK" :> "EC_YORK__CITY_OF")

Renames1983 ==
    ("EC_BIRKENDHEAD" :> "EC_BIRKENHEAD")
    @@ ("EC_CARRICK__CUMNOCK_AND_DOON_VALLEY" :> "EC_CARRICK")
    @@ ("EC_CITY_OF_CHESTER" :> "EC_CHESTER__CITY_OF")
    @@ ("EC_CITY_OF_DURHAM" :> "EC_DURHAM__CITY_OF")
    @@ ("EC_DEVON_WEST_AND_TORRIDGE" :> "EC_TORRIDGE_AND_WEST_DEVON")
    @@ ("EC_GLLINGHAM" :> "EC_GILLINGHAM")
    @@ ("EC_INVERNESS__NAIRN_AND_LOCHABER" :> "EC_INVERNESS")
    @@ ("EC_KILMARNOCK_AND_LOUDON" :> "EC_KILMARNOCK_AND_LOUDOUN")
    @@ ("EC_LEEDS_SOUTH_AND_MORLEY" :> "EC_MORLEY_AND_LEEDS_SOUTH")
    @@ ("EC_LINDSEY_EAST" :> "EC_EAST_LINDSEY")
    @@ ("EC_ROSS__CROMARTY_AND_SKYE" :> "EC_ROSS")
    @@ ("EC_SHEFFIELD_HILLBOROUGH" :> "EC_SHEFFIELD_HILLSBOROUGH")
    @@ ("EC_THE_WREKIN" :> "EC_WREKIN__THE")
    @@ ("EC_TWEEDDALE__ETTRICK_AND_LAUDERDALE" :> "EC_TWEEDDALE")
    @@ ("EC_WOLVERHMAPTON_NORTH_EAST" :> "EC_WOLVERHAMPTON_NORTH_EAST")
    @@ ("EC_YNYS_MON" :> "EC_YNYS_MON___ANGLESEY")
    @@ ("EC_YORK" :> "EC_YORK__CITY_OF")

Renames1997 ==
    ("EC_CAITHNESS__SUTHERLAND_AND_EASTER_ROSS" :> "EC_CAITHNESS_SUTHERLAND_AND_EASTER_ROSS")
    @@ ("EC_CARRICK__CUMNOCK_AND_DOON_VALLEY" :> "EC_CARRICK_CUMNOCK_AND_DOON_VALLEY")
    @@ ("EC_CITY_OF_CHESTER" :> "EC_CHESTER__CITY_OF")
    @@ ("EC_CITY_OF_DURHAM" :> "EC_DURHAM__CITY_OF")
    @@ ("EC_CITY_OF_YORK" :> "EC_YORK__CITY_OF")
    @@ ("EC_GREAT_GRIMSBBY" :> "EC_GREAT_GRIMSBY")
    @@ ("EC_INVERNESS_E__NAIRN_AND_LOCHABER" :> "EC_INVERNESS_EAST_NAIRN_AND_LOCHABER")
    @@ ("EC_KILMARNOCK_AND_LOUDON" :> "EC_KILMARNOCK_AND_LOUDOUN")
    @@ ("EC_ROSS__SKYE_AND_INVERNESS_WEST" :> "EC_ROSS_SKYE_AND_INVERNESS_WEST")
    @@ ("EC_SHEFFILED_BRIGHTSIDE" :> "EC_SHEFFIELD_BRIGHTSIDE")
    @@ ("EC_SHEFFILED_CENTRAL" :> "EC_SHEFFIELD_CENTRAL")
    @@ ("EC_SHEFFILED_HEELEY" :> "EC_SHEFFIELD_HEELEY")
    @@ ("EC_SOUTHHAMPTON_ITCHIN" :> "EC_SOUTHAMPTON_ITCHEN")
    @@ ("EC_THE_WREKIN" :> "EC_WREKIN__THE")
    @@ ("EC_TWEEDDALE__ETTRICK_AND_LAUDERDALE" :> "EC_TWEEDDALE_ETTRICK_AND_LAUDERDALE")

Renames2005 ==
    ("EC_AIDRIE_AND_SHOTTS" :> "EC_AIRDRIE_AND_SHOTTS")
    @@ ("EC_AYR__CARRICK_AND_CUMNOCK" :> "EC_AYR_CARRICK_AND_CUMNOCK")
    @@ ("EC_CAITHNESS__SUTHERLAND_AND_EASTER_ROSS" :> "EC_CAITHNESS_SUTHERLAND_AND_EASTER_ROSS")
    @@ ("EC_CITY_OF_CHESTER" :> "EC_CHESTER__CITY_OF")
    @@ ("EC_CITY_OF_DURHAM" :> "EC_DURHAM__CITY_OF")
    @@ ("EC_CITY_OF_YORK" :> "EC_YORK__CITY_OF")
    @@ ("EC_GREAT_GRIMSBBY" :> "EC_GREAT_GRIMSBY")
    @@ ("EC_INVERNESS__NAIRN__BADENOCH_AND_STRATHSPEY" :> "EC_INVERNESS_NAIRN_BADENOCH_AND_STRATHSPEY")
    @@ ("EC_KILMARNOCK_AND_LOUDON" :> "EC_KILMARNOCK_AND_LOUDOUN")
    @@ ("EC_LINLITHGOW_AND_FALKIRK_EAST" :> "EC_LINLITHGOW_AND_EAST_FALKIRK")
    @@ ("EC_NA_H_EILEANAN_AN_IAR" :> "EC_NA_H_EILEANAN_AN_IAR__WESTERN_ISLES_")
    @@ ("EC_ROSS__SKYE_AND_LOCHABER" :> "EC_ROSS_SKYE_AND_LOCHABER")
    @@ ("EC_SHEFFILED_BRIGHTSIDE" :> "EC_SHEFFIELD_BRIGHTSIDE")
    @@ ("EC_SHEFFILED_CENTRAL" :> "EC_SHEFFIELD_CENTRAL")
    @@ ("EC_SHEFFILED_HEELEY" :> "EC_SHEFFIELD_HEELEY")
    @@ ("EC_SOUTHHAMPTON_ITCHIN" :> "EC_SOUTHAMPTON_ITCHEN")
    @@ ("EC_THE_WREKIN" :> "EC_WREKIN__THE")

Renames2010 ==
    ("EC_AIDRIE_AND_SHOTTS" :> "EC_AIRDRIE_AND_SHOTTS")
    @@ ("EC_AYR__CARRICK_AND_CUMNOCK" :> "EC_AYR_CARRICK_AND_CUMNOCK")
    @@ ("EC_BRIDGWATER_AND_SOMERSET_WEST" :> "EC_BRIDGWATER_AND_WEST_SOMERSET")
    @@ ("EC_CAITHNESS__SUTHERLAND_AND_EASTER_ROSS" :> "EC_CAITHNESS_SUTHERLAND_AND_EASTER_ROSS")
    @@ ("EC_CANBRIDGESHIRE_SOUTH_EAST" :> "EC_CAMBRIDGESHIRE_SOUTH_EAST")
    @@ ("EC_CITY_OF_CHESTER" :> "EC_CHESTER__CITY_OF")
    @@ ("EC_CITY_OF_DURHAM" :> "EC_DURHAM__CITY_OF")
    @@ ("EC_GREAT_GRIMSBBY" :> "EC_GREAT_GRIMSBY")
    @@ ("EC_HEREFORD_AND_HEREFORDSHIRE_SOUTH" :> "EC_HEREFORD_AND_SOUTH_HEREFORDSHIRE")
    @@ ("EC_INVERNESS__NAIRN__BADENOCH_AND_STRATHSPEY" :> "EC_INVERNESS_NAIRN_BADENOCH_AND_STRATHSPEY")
    @@ ("EC_KILMARNOCK_AND_LOUDON" :> "EC_KILMARNOCK_AND_LOUDOUN")
    @@ ("EC_LINLITHGOW_AND_FALKIRK_EAST" :> "EC_LINLITHGOW_AND_EAST_FALKIRK")
    @@ ("EC_MORCAMBE_AND_LUNESDALE" :> "EC_MORECAMBE_AND_LUNESDALE")
    @@ ("EC_NA_H_EILEANAN_AN_IAR" :> "EC_NA_H_EILEANAN_AN_IAR__WESTERN_ISLES_")
    @@ ("EC_NORTHAMAPTON_SOUTH" :> "EC_NORTHAMPTON_SOUTH")
    @@ ("EC_ROSS__SKYE_AND_LOCHABER" :> "EC_ROSS_SKYE_AND_LOCHABER")
    @@ ("EC_SOUTH_RIBBLE" :> "EC_RIBBLE_SOUTH")
    @@ ("EC_SUUFOLK_WEST" :> "EC_SUFFOLK_WEST")
    @@ ("EC_THE_COTSWOLDS" :> "EC_COTSWOLDS__THE")
    @@ ("EC_THE_WREKIN" :> "EC_WREKIN__THE")

Renames2024 ==
    ("EC_AYR_CARRICK_AND_CUMNOCK" :> "EC_AYR__CARRICK_AND_CUMNOCK")
    @@ ("EC_CAERFYRDDIN" :> "EC_CAERFYRDDIN__CARMARTHEN_")
    @@ ("EC_CITY_OF_DURHAM" :> "EC_DURHAM__CITY_OF")
    @@ ("EC_DORSET_MID_AND_POOLE_NORTH" :> "EC_DORSET_MID_AND_NORTH_POOLE")
    @@ ("EC_FAVERSHAM_AND_KENT_MID" :> "EC_FAVERSHAM_AND_MID_KENT")
    @@ ("EC_KILMARNOCK_AND_LOUDON" :> "EC_KILMARNOCK_AND_LOUDOUN")
    @@ ("EC_MIDDLESBROUGH_SOUTH_AND_CLEVELAND_EAST" :> "EC_MIDDLESBROUGH_SOUTH_AND_EAST_CLEVELAND")
    @@ ("EC_MORAY_W__NAIRN_AND_STRATHSPEY" :> "EC_MORAY_WEST__NAIRN_AND_STRATHSPEY")
    @@ ("EC_NA_H_EILEANAN_AN_IAR" :> "EC_NA_H_EILEANAN_AN_IAR__WESTERN_ISLES_")
    @@ ("EC_OLDHAM_W__CHADDERTON_AND_ROYTON" :> "EC_OLDHAM_WEST__CHADDERTON_AND_ROYTON")
    @@ ("EC_SUFFOLK_CENTRAL_AND_IPSWICH_NORTH" :> "EC_SUFFOLK_CENTRAL_AND_NORTH_IPSWICH")
    @@ ("EC_THE_WREKIN" :> "EC_WREKIN__THE")
    @@ ("EC_YNYS_M_N" :> "EC_YNYS_MON__ANGLESEY_")

\* rename tables in which a mapped value is a key again
BOUNDARY_RENAMES_Chained ==
    [v \in {"1955", "1974", "1983", "1997", "2005", "2010", "2024"} |->
        ("EC_WREKIN__THE" :> "EC_WREKIN")
        @@ (CASE v = "1955" -> Renames1955 [] v = "1974" -> Renames1974
              [] v = "1983" -> Renames1983 [] v = "1997" -> Renames1997
              [] v = "2005" -> Renames2005 [] v = "2010" -> Renames2010
              [] OTHER -> Renames2024)]

BOUNDARY_RENAMES ==
    ("1955" :> Renames1955) @@ ("1974" :> Renames1974) @@ ("1983" :> Renames1983)
    @@ ("1997" :> Renames1997) @@ ("2005" :> Renames2005) @@ ("2010" :> Renames2010)
    @@ ("2024" :> Renames2024)

\* Python's order of str on every identifier the model uses: sorted(ids) is
\* the subsequence of IdOrder whose members are in ids.
IdOrder == <<
    "", "EC_", "EC_ABERAVON", "EC_ABERDARE", "EC_AIDRIE_AND_SHOTTS", "EC_AIRDRIE_AND_SHOTTS",
    "EC_ASHTON_UNDER_LINE", "EC_ASHTON_UNDER_LYNE", "EC_AYRSHIRE_NORTH_AND_BUTE",
    "EC_AYR_CARRICK_AND_CUMNOCK", "EC_AYR__CARRICK_AND_CUMNOCK", "EC_BARONS_COURT",
    "EC_BARON_S_COURT", "EC_BIRKENDHEAD", "EC_BIRKENHEAD", "EC_BIRMINGHAM_SELLY_OAK",
    "EC_BIRMINGHA_SELLY_OAK", "EC_BRIDGWATER_AND_SOMERSET_WEST", "EC_BRIDGWATER_AND_WEST_SOMERSET",
    "EC_BUTE_AND_AYRSHIRE_NORTH", "EC_CAERFYRDDIN", "EC_CAERFYRDDIN__CARMARTHEN_",
    "EC_CAITHNESS_SUTHERLAND_AND_EASTER_ROSS", "EC_CAITHNESS__SUTHERLAND_AND_EASTER_ROSS",
    "EC_CAMBRIDGESHIRE_SOUTH_EAST", "EC_CANBRIDGESHIRE_SOUTH_EAST", "EC_CARRICK",
    "EC_CARRICK_CUMNOCK_AND_DOON_VALLEY", "EC_CARRICK__CUMNOCK_AND_DOON_VALLEY",
    "EC_CHESTER__CITY_OF", "EC_CITIES_OF_LONDON_AND_WESTMINSTER",
    "EC_CITIES_OF_LONDON_AND_WESTMISTER", "EC_CITY_OF_CHESTER", "EC_CITY_OF_DURHAM",
    "EC_CITY_OF_LONDON_AND_WESTMINSTER_SOUTH", "EC_CITY_OF_LONDON_AND_WESTMISTER_SOUTH",
    "EC_CITY_OF_YORK", "EC_CLACKMANNAN_AND_EAST_STIRLINGSHIRE", "EC_COTSWOLDS__THE",
    "EC_DEVON_WEST_AND_TORRIDGE", "EC_DORSET_MID_AND_NORTH_POOLE", "EC_DORSET_MID_AND_POOLE_NORTH",
    "EC_DUNFERMLINE", "EC_DUNFERMLINE_BURGHS", "EC_DURHAM", "EC_DURHAM__CITY_OF",
    "EC_EAST_LINDSEY", "EC_FAVERSHAM_AND_KENT_MID", "EC_FAVERSHAM_AND_MID_KENT",
    "EC_GASGOW_SHETTLESTON", "EC_GILLINGHAM", "EC_GLASGOW_SHETTLESTON", "EC_GLLINGHAM",
    "EC_GREAT_GRIMSBBY", "EC_GREAT_GRIMSBY", "EC_HARTLEPOOLS__THE",
    "EC_HEREFORD_AND_HEREFORDSHIRE_SOUTH", "EC_HEREFORD_AND_SOUTH_HEREFORDSHIRE",
    "EC_HULL_CENTRAL", "EC_HULL_EAST", "EC_HULL_NORTH", "EC_HULL_WEST", "EC_INVERNESS",
    "EC_INVERNESS_EAST_NAIRN_AND_LOCHABER", "EC_INVERNESS_E__NAIRN_AND_LOCHABER",
    "EC_INVERNESS_NAIRN_BADENOCH_AND_STRATHSPEY", "EC_INVERNESS__NAIRN_AND_LOCHABER",
    "EC_INVERNESS__NAIRN__BADENOCH_AND_STRATHSPEY", "EC_KILMARNOCK_AND_LOUDON",
    "EC_KILMARNOCK_AND_LOUDOUN", "EC_KINGSTON_UPON_HULL_CENTRAL", "EC_KINGSTON_UPON_HULL_EAST",
    "EC_KINGSTON_UPON_HULL_NORTH", "EC_KINGSTON_UPON_HULL_WEST", "EC_KIRKCALDY",
    "EC_KIRKCALDY_BURGHS", "EC_LEEDS_SOUTH_AND_MORLEY", "EC_LINDSEY_EAST",
    "EC_LINLITHGOW_AND_EAST_FALKIRK", "EC_LINLITHGOW_AND_FALKIRK_EAST", "EC_LLANELLI",
    "EC_LLANELLY", "EC_MANSFIELD", "EC_MANSFIIELD", "EC_MIDDLESBROUGH_SOUTH_AND_CLEVELAND_EAST",
    "EC_MIDDLESBROUGH_SOUTH_AND_EAST_CLEVELAND", "EC_MILTON_KEYNES", "EC_MILTON_KEYNES_NORTH_EAST",
    "EC_MILTON_KEYNES_SOUTH_WEST", "EC_MORAY_WEST__NAIRN_AND_STRATHSPEY",
    "EC_MORAY_W__NAIRN_AND_STRATHSPEY", "EC_MORCAMBE_AND_LUNESDALE", "EC_MORECAMBE_AND_LUNESDALE",
    "EC_MORLEY_AND_LEEDS_SOUTH", "EC_NA_H_EILEANAN_AN_IAR",
    "EC_NA_H_EILEANAN_AN_IAR__WESTERN_ISLES_", "EC_NORTHAMAPTON_SOUTH", "EC_NORTHAMPTON_SOUTH",
    "EC_NOTTINGHAM_WEST", "EC_NOTTINGHSM_WEST", "EC_OLDHAM_WEST__CHADDERTON_AND_ROYTON",
    "EC_OLDHAM_W__CHADDERTON_AND_ROYTON", "EC_OXFORDSHIRE_MID", "EC_OXON_MID", "EC_RIBBLE_SOUTH",
    "EC_RICHMOND", "EC_RICHMOND__SURREY_", "EC_RICHMOND__YORKS_", "EC_ROSS",
    "EC_ROSS_SKYE_AND_INVERNESS_WEST", "EC_ROSS_SKYE_AND_LOCHABER", "EC_ROSS__CROMARTY_AND_SKYE",
    "EC_ROSS__SKYE_AND_INVERNESS_WEST", "EC_ROSS__SKYE_AND_LOCHABER", "EC_ROYAL_TUNBRIDGE_WELLS",
    "EC_SHEFFIELD_BRIGHTSIDE", "EC_SHEFFIELD_CENTRAL", "EC_SHEFFIELD_HEELEY",
    "EC_SHEFFIELD_HILLBOROUGH", "EC_SHEFFIELD_HILLSBOROUGH", "EC_SHEFFILED_BRIGHTSIDE",
    "EC_SHEFFILED_CENTRAL", "EC_SHEFFILED_HEELEY", "EC_SOUTHAMPTON_ITCHEN", "EC_SOUTHEND_WEST",
    "EC_SOUTHHAMPTON_ITCHIN", "EC_SOUTH_RIBBLE", "EC_STIRLINGSHIRE_EAST_AND_CLACKMANNAN",
    "EC_STRATFORD", "EC_STRATFORD_ON_AVON", "EC_SUFFOLK_CENTRAL_AND_IPSWICH_NORTH",
    "EC_SUFFOLK_CENTRAL_AND_NORTH_IPSWICH", "EC_SUFFOLK_WEST", "EC_SUUFOLK_WEST",
    "EC_THE_COTSWOLDS", "EC_THE_HARTLEPOOLS", "EC_THE_WREKIN", "EC_TORRIDGE_AND_WEST_DEVON",
    "EC_TUNBRIDGE_WELLS", "EC_TWEEDDALE", "EC_TWEEDDALE_ETTRICK_AND_LAUDERDALE",
    "EC_TWEEDDALE__ETTRICK_AND_LAUDERDALE", "EC_WANSTEAD_AND_WOODFORD",
    "EC_WOLVERHAMPTON_NORTH_EAST", "EC_WOLVERHAMPTON_SOUTH_WEST", "EC_WOLVERHAMTON_NORTH_EAST",
    "EC_WOLVERHAMTON_SOUTH_WEST", "EC_WOLVERHMAPTON_NORTH_EAST", "EC_WOODFORD", "EC_WREKIN__THE",
    "EC_YNYS_MON", "EC_YNYS_MON__ANGLESEY_", "EC_YNYS_MON___ANGLESEY", "EC_YNYS_M_N", "EC_YORK",
    "EC_YORK__CITY_OF", "EC__WANSTEAD_AND___WOODFORD"
>>

----------------------------------------------------------------------------
(* Strings as character sequences, and normalize_constituency_name *)

UpperCase == <<"A", "B", "C", "D", "E", "F", "G", "H", "I", "J", "K", "L", "M",
               "N", "O", "P", "Q", "R", "S", "T", "U", "V", "W", "X", "Y", "Z">>
LowerCase == <<"a", "b", "c", "d", "e", "f", "g", "h", "i", "j", "k", "l", "m",
               "n", "o", "p", "q", "r", "s", "t", "u", "v", "w", "x", "y", "z">>
Digits == <<"0", "1", "2", "3", "4", "5", "6", "7", "8", "9">>

InSeq(c, s) == \E i \in 1..Len(s) : s[i] = c

\* \s of the re module (on the characters the model uses)
IsSpace(c) == c \in {" ", "\t", "\n", "\r"}

\* \w of the re module
IsWord(c) == InSeq(c, UpperCase) \/ InSeq(c, LowerCase) \/ InSeq(c, Digits) \/ c = "_"

\* str.lower() on one character
LowerChar(c) ==
    IF InSeq(c, UpperCase)
    THEN LowerCase[CHOOSE i \in 1..Len(UpperCase) : UpperCase[i] = c]
    ELSE c

lower(s) == [i \in 1..Len(s) |-> LowerChar(s[i])]

\* the number of whitespace characters of s from position i on
RECURSIVE SpaceRun(_, _)
SpaceRun(s, i) == IF i <= Len(s) /\ IsSpace(s[i]) THEN 1 + SpaceRun(s, i + 1) ELSE 0

\* re.sub(r'\s*&\s*', ' and ', s), scanning from position i
RECURSIVE SubAmpersand(_, _)
SubAmpersand(s, i) ==
    IF i > Len(s) THEN <<>>
    ELSE LET j == i + SpaceRun(s, i)
         IN  IF j <= Len(s) /\ s[j] = "&"
             THEN <<" ", "a", "n", "d", " ">> \o SubAmpersand(s, j + 1 + SpaceRun(s, j + 1))
             ELSE <<s[i]>> \o SubAmpersand(s, i + 1)

\* str.replace('-', ' ')
ReplaceHyphen(s) == [i \in 1..Len(s) |-> IF s[i] = "-" THEN " " ELSE s[i]]

\* tok is at position i of s between two word boundaries; with ahead, it is
\* also followed by whitespace or the end of the string: (?=\s|$)
TokenAt(s, i, tok, ahead) ==
    LET k == Len(tok)
    IN  /\ i + k - 1 <= Len(s)
        /\ \A m \in 1..k : s[i + m - 1] = tok[m]
        /\ (i = 1 \/ ~IsWord(s[i - 1]))
        /\ (i + k > Len(s) \/ ~IsWord(s[i + k]))
        /\ (ahead => (i + k > Len(s) \/ IsSpace(s[i + k])))

\* re.sub(r'\bTOK\b', repl, s) and re.sub(r'\bTOK\b(?=\s|$)', repl, s)
RECURSIVE SubToken(_, _, _, _, _)
SubToken(s, i, tok, repl, ahead) ==
    IF i > Len(s) THEN <<>>
    ELSE IF TokenAt(s, i, tok, ahead)
         THEN repl \o SubToken(s, i + Len(tok), tok, repl, ahead)
         ELSE <<s[i]>> \o SubToken(s, i + 1, tok, repl, ahead)

\* re.sub(r'\s+', ' ', s)
RECURSIVE CollapseSpaces(_, _)
CollapseSpaces(s, i) ==
    IF i > Len(s) THEN <<>>
    ELSE IF IsSpace(s[i])
         THEN <<" ">> \o CollapseSpaces(s, i + SpaceRun(s, i))
         ELSE <<s[i]>> \o CollapseSpaces(s, i + 1)

\* str.strip()
RECURSIVE strip(_)
strip(s) ==
    IF s = <<>> THEN s
    ELSE IF IsSpace(s[1]) THEN strip(Tail(s))
    ELSE IF IsSpace(s[Len(s)]) THEN strip(SubSeq(s, 1, Len(s) - 1))
    ELSE s

North == <<"N", "o", "r", "t", "h">>
South == <<"S", "o", "u", "t", "h">>
East == <<"E", "a", "s", "t">>
West == <<"W", "e", "s", "t">>

\* the normalizer with the strip() before the replacements
normalize_strip_first(name) ==
    IF name = <<>> THEN <<>>
    ELSE LET n0 == strip(name)
             n1 == SubAmpersand(n0, 1)
             n2 == ReplaceHyphen(n1)
             n3 == SubToken(n2, 1, <<"N", "E">>, North \o <<" ">> \o East, FALSE)
             n4 == SubToken(n3, 1, <<"N", "W">>, North \o <<" ">> \o West, FALSE)
             n5 == SubToken(n4, 1, <<"S", "E">>, South \o <<" ">> \o East, FALSE)
             n6 == SubToken(n5, 1, <<"S", "W">>, South \o <<" ">> \o West, FALSE)
             n7 == SubToken(n6, 1, <<"N">>, North, TRUE)
             n8 == SubToken(n7, 1, <<"S">>, South, TRUE)
             n9 == SubToken(n8, 1, <<"E">>, East, TRUE)
             n10 == SubToken(n9, 1, <<"W">>, West, TRUE)
         IN  lower(CollapseSpaces(n10, 1))

normalize_constituency_name(name) ==
    IF name = <<>> THEN <<>>
    ELSE LET n1 == SubAmpersand(name, 1)
             n2 == ReplaceHyphen(n1)
             n3 == SubToken(n2, 1, <<"N", "E">>, North \o <<" ">> \o East, FALSE)
             n4 == SubToken(n3, 1, <<"N", "W">>, North \o <<" ">> \o West, FALSE)
             n5 == SubToken(n4, 1, <<"S", "E">>, South \o <<" ">> \o East, FALSE)
             n6 == SubToken(n5, 1, <<"S", "W">>, South \o <<" ">> \o West, FALSE)
             n7 == SubToken(n6, 1, <<"N">>, North, TRUE)
             n8 == SubToken(n7, 1, <<"S">>, South, TRUE)
             n9 == SubToken(n8, 1, <<"E">>, East, TRUE)
             n10 == SubToken(n9, 1, <<"W">>, West, TRUE)
         IN  lower(strip(CollapseSpaces(n10, 1)))

RichmondYorksName ==
    <<"R", "i", "c", "h", "m", "o", "n", "d", " ", "(", "Y", "o", "r", "k", "s", ".", ")">>
RichmondSurreyName ==
    <<"R", "i", "c", "h", "m", "o", "n", "d", " ", "(", "S", "u", "r", "r", "e", "y", ")">>
SouthendWestName ==
    <<"S", "o", "u", "t", "h", "e", "n", "d", " ", "W", "e", "s", "t">>
WansteadAndWoodfordName ==
    <<"W", "a", "n", "s", "t", "e", "a", "d", " ", "a", "n", "d", " ",
      "W", "o", "o", "d", "f", "o", "r", "d">>

----------------------------------------------------------------------------
(* count_coords and get_centroid_lat *)

RECURSIVE Flatten(_, _)
Flatten(ss, i) == IF i > Len(ss) THEN <<>> ELSE ss[i] \o Flatten(ss, i + 1)

\* every point of every ring, in the order the loops visit them
AllPoints(geom) ==
    IF geom.type = "Polygon" THEN Flatten(geom.coordinates, 1)
    ELSE IF geom.type = "MultiPolygon"
    THEN Flatten([p \in 1..Len(geom.coordinates) |-> Flatten(geom.coordinates[p], 1)], 1)
    ELSE <<>>

count_coords(feature) ==
    LET geom == feature.geometry
    IN  IF geom.type = "Polygon"
        THEN SumOver([r \in 1..Len(geom.coordinates) |-> Len(geom.coordinates[r])], 1)
        ELSE IF geom.type = "MultiPolygon"
        THEN SumOver([p \in 1..Len(geom.coordinates) |->
                 SumOver([r \in 1..Len(geom.coordinates[p]) |-> Len(geom.coordinates[p][r])], 1)], 1)
        ELSE 0

\* sum(p[1] for p in all_points): float additions from left to right
RECURSIVE FSumLat(_, _, _)
FSumLat(points, i, acc) ==
    IF i > Len(points) THEN acc ELSE FSumLat(points, i + 1, FAdd(acc, points[i][2]))

get_centroid_lat(feature) ==
    LET all_points == AllPoints(feature.geometry)
    IN  IF all_points = <<>> THEN 0
        ELSE FDiv(FSumLat(all_points, 1, 0), Len(all_points))

----------------------------------------------------------------------------
(* fix_election_files *)

FixConstituencyYear(year_str, c) ==
    IF year_str \in DOMAIN YEAR_ENCODING_FIXES /\ c.year # YEAR_ENCODING_FIXES[year_str]
    THEN [c EXCEPT !.year = YEAR_ENCODING_FIXES[year_str]]
    ELSE c

FixConstituencyWoodford(year_str, c) ==
    IF year_str \in WOODFORD_RENAME_YEARS /\ c.constituencyId = "EC_WOODFORD"
    THEN [c EXCEPT !.constituencyId = "EC_WANSTEAD_AND_WOODFORD",
                   !.constituencyName = WansteadAndWoodfordName]
    ELSE c

\* the body of the loop of fix_election_files for one file that exists
FixElectionFile(year_str, data) ==
    LET fixBV == year_str \in DOMAIN BOUNDARY_VERSION_FIXES
                 /\ data.boundaryVersion # BOUNDARY_VERSION_FIXES[year_str]
        fixYear == year_str \in DOMAIN YEAR_ENCODING_FIXES
                   /\ data.year # YEAR_ENCODING_FIXES[year_str]
        cs == data.constituencies
        cs1 == [k \in 1..Len(cs) |-> FixConstituencyYear(year_str, cs[k])]
        cs2 == [k \in 1..Len(cs) |-> FixConstituencyWoodford(year_str, cs1[k])]
        modified == fixBV \/ fixYear \/ (\E k \in 1..Len(cs) : cs1[k] # cs[k])
                    \/ (\E k \in 1..Len(cs) : cs2[k] # cs1[k])
    IN  [data |-> [data EXCEPT
                     !.boundaryVersion = IF fixBV THEN BOUNDARY_VERSION_FIXES[year_str] ELSE @,
                     !.year = IF fixYear THEN YEAR_ENCODING_FIXES[year_str] ELSE @,
                     !.constituencies = cs2],
         modified |-> modified]

fix_election_files(elecs) ==
    LET w == {y \in Years : elecs[y].exists /\ FixElectionFile(y, elecs[y]).modified}
    IN  [elections |-> [y \in Years |-> IF y \in w THEN FixElectionFile(y, elecs[y]).data
                                        ELSE elecs[y]],
         written |-> {<<"elections", y>> : y \in w},
         fixes |-> Cardinality(w)]

----------------------------------------------------------------------------
(* fix_boundary_files *)

\* Handle Richmond lat-based split
\* the split with the comparison turned round
RichmondSplitInverted(version, features) ==
    IF version \notin RICHMOND_SPLIT_VERSIONS THEN features
    ELSE [k \in 1..Len(features) |->
            IF features[k].id # "EC_RICHMOND" THEN features[k]
            ELSE IF get_centroid_lat(features[k]) < RichmondLat
                 THEN [features[k] EXCEPT !.id = "EC_RICHMOND__YORKS_",
                                          !.Name = RichmondYorksName,
                                          !.normalizedName = RichmondYorksName]
                 ELSE [features[k] EXCEPT !.id = "EC_RICHMOND__SURREY_",
                                          !.Name = RichmondSurreyName,
                                          !.normalizedName = RichmondSurreyName]]

RichmondSplit(version, features) ==
    IF version \in RICHMOND_SPLIT_VERSIONS
    THEN [k \in 1..Len(features) |->
            IF features[k].id = "EC_RICHMOND"
            THEN IF get_centroid_lat(features[k]) > RichmondLat
                 THEN [features[k] EXCEPT !.id = "EC_RICHMOND__YORKS_",
                                          !.Name = RichmondYorksName,
                                          !.normalizedName = RichmondYorksName]
                 ELSE [features[k] EXCEPT !.id = "EC_RICHMOND__SURREY_",
                                          !.Name = RichmondSurreyName,
                                          !.normalizedName = RichmondSurreyName]
            ELSE features[k]]
    ELSE features

RichmondSplitCount(version, features) ==
    IF version \in RICHMOND_SPLIT_VERSIONS
    THEN Cardinality({k \in 1..Len(features) : features[k].id = "EC_RICHMOND"})
    ELSE 0

\* Handle empty feature -> EC_SOUTHEND_WEST
\* the repair of the identifier without the repair of the name
EmptyFeatureFixIdOnly(version, features) ==
    IF version \notin EMPTY_FEATURE_VERSIONS THEN features
    ELSE [k \in 1..Len(features) |->
            IF features[k].id = "EC_"
            THEN [features[k] EXCEPT !.id = "EC_SOUTHEND_WEST"]
            ELSE features[k]]

EmptyFeatureFix(version, features) ==
    IF version \in EMPTY_FEATURE_VERSIONS
    THEN [k \in 1..Len(features) |->
            IF features[k].id = "EC_"
            THEN [features[k] EXCEPT !.id = "EC_SOUTHEND_WEST",
                                     !.Name = SouthendWestName,
                                     !.normalizedName = SouthendWestName]
            ELSE features[k]]
    ELSE features

EmptyFeatureCount(version, features) ==
    IF version \in EMPTY_FEATURE_VERSIONS
    THEN Cardinality({k \in 1..Len(features) : features[k].id = "EC_"})
    ELSE 0

\* Apply ID mapping renames
\* a rename loop that stops at its first hit
ApplyRenamesFirstHit(renames, features) ==
    [k \in 1..Len(features) |->
        IF /\ features[k].id \in DOMAIN renames
           /\ \A m \in 1..(k - 1) : features[m].id \notin DOMAIN renames
        THEN [features[k] EXCEPT !.id = renames[features[k].id]]
        ELSE features[k]]

ApplyRenames(renames, features) ==
    [k \in 1..Len(features) |->
        IF features[k].id \in DOMAIN renames
        THEN [features[k] EXCEPT !.id = renames[features[k].id]]
        ELSE features[k]]

RenameCount(renames, features) ==
    Cardinality({k \in 1..Len(features) : features[k].id \in DOMAIN renames})

\* max(candidates, key=count_coords): the running best is replaced only by a
\* strictly greater key, so the first of the greatest is returned
\* max() returning the last of the maximal candidates
RECURSIVE MaxByCoordsLast(_, _, _)
MaxByCoordsLast(candidates, i, best) ==
    IF i > Len(candidates) THEN best
    ELSE MaxByCoordsLast(candidates, i + 1,
            IF count_coords(candidates[i]) >= count_coords(best) THEN candidates[i] ELSE best)

RECURSIVE MaxByCoords(_, _, _)
MaxByCoords(candidates, i, best) ==
    IF i > Len(candidates) THEN best
    ELSE MaxByCoords(candidates, i + 1,
             IF count_coords(candidates[i]) > count_coords(best) THEN candidates[i] ELSE best)

\* id_features[fid]
Candidates(features, fid) == SelectSeq(features, LAMBDA f : f.id = fid)

\* the second loop of the deduplication, from feature i on
RECURSIVE DedupLoop(_, _, _, _, _)
DedupLoop(features, i, seen_ids, deduped, dupe_count) ==
    IF i > Len(features) THEN [deduped |-> deduped, dupe_count |-> dupe_count]
    ELSE LET fid == features[i].id
             candidates == Candidates(features, fid)
         IN  IF fid \in seen_ids
             THEN DedupLoop(features, i + 1, seen_ids, deduped, dupe_count)
             ELSE IF Len(candidates) > 1
             THEN DedupLoop(features, i + 1, seen_ids \cup {fid},
                            Append(deduped, MaxByCoords(candidates, 2, candidates[1])),
                            dupe_count + Len(candidates) - 1)
             ELSE DedupLoop(features, i + 1, seen_ids \cup {fid},
                            Append(deduped, candidates[1]), dupe_count)

\* Deduplicate features: data['features'] is replaced only if dupe_count > 0
Deduplicate(version, features) ==
    IF version \in DEDUP_VERSIONS
    THEN LET d == DedupLoop(features, 1, {}, <<>>, 0)
         IN  IF d.dupe_count > 0 THEN d.deduped ELSE features
    ELSE features

DupeCount(version, features) ==
    IF version \in DEDUP_VERSIONS THEN DedupLoop(features, 1, {}, <<>>, 0).dupe_count ELSE 0

\* the body of the loop of fix_boundary_files for one file that exists
FixBoundaryFile(version, features) ==
    LET renames == BOUNDARY_RENAMES[version]
        f1 == RichmondSplit(version, features)
        f2 == EmptyFeatureFix(version, f1)
        f3 == ApplyRenames(renames, f2)
        f4 == Deduplicate(version, f3)
        modified == RichmondSplitCount(version, features) > 0
                    \/ EmptyFeatureCount(version, f1) > 0
                    \/ RenameCount(renames, f2) > 0
                    \/ DupeCount(version, f3) > 0
    IN  [features |-> f4, modified |-> modified]

fix_boundary_files(bnds) ==
    LET w == {v \in Versions : bnds[v].exists /\ FixBoundaryFile(v, bnds[v].features).modified}
    IN  [boundaries |-> [v \in Versions |->
                            IF v \in w
                            THEN [bnds[v] EXCEPT !.features = FixBoundaryFile(v, @).features]
                            ELSE bnds[v]],
         written |-> {<<"boundaries", v>> : v \in w},
         fixes |-> Cardinality(w)]

----------------------------------------------------------------------------
(* fix_winding_order over the files *)

fix_winding_order(bnds) ==
    LET w == {v \in Versions : bnds[v].exists /\ RewoundInFeatures(bnds[v].features) > 0}
    IN  [boundaries |-> [v \in Versions |->
                            IF v \in w
                            THEN [bnds[v] EXCEPT !.features = RewindFeatures(@)]
                            ELSE bnds[v]],
         written |-> {<<"boundaries", v>> : v \in w},
         fixes |-> Cardinality(w)]

----------------------------------------------------------------------------
(* sync_boundary_names *)

\* the constituencies of the election files mapped to bv, in the order the
\* first loop of sync_boundary_names reads them
ConstituenciesOf(elecs, bv) ==
    Flatten([i \in 1..Len(YearOrder) |->
                IF year_to_boundary[YearOrder[i]] = bv
                THEN elecs[YearOrder[i]].constituencies ELSE <<>>], 1)

\* boundary_name_lookup[bv] as the list cs it was filled from: the position
\* of the first constituency with identifier fid from position i on, 0 if
\* there is none (fid not in name_lookup)
RECURSIVE FirstWithId(_, _, _)
FirstWithId(cs, fid, i) ==
    IF i > Len(cs) THEN 0
    ELSE IF cs[i].constituencyId = fid THEN i
    ELSE FirstWithId(cs, fid, i + 1)

\* the body of the loop over data['features'] for one feature
SyncFeature(cs, feature) ==
    LET first == FirstWithId(cs, feature.id, 1)
    IN  IF first = 0 THEN [feature |-> feature, updated |-> FALSE]
        ELSE LET election_name == cs[first].constituencyName
                 normalized == normalize_constituency_name(election_name)
             IN  IF feature.Name # election_name \/ feature.normalizedName # normalized
                 THEN [feature |-> [feature EXCEPT !.Name = election_name,
                                                   !.normalizedName = normalized],
                       updated |-> TRUE]
                 ELSE [feature |-> feature, updated |-> FALSE]

\* the body of the second loop of sync_boundary_names for one file
SyncBoundaryFile(elecs, bv, features) ==
    LET cs == ConstituenciesOf(elecs, bv)
        synced == [k \in 1..Len(features) |-> SyncFeature(cs, features[k])]
    IN  [features |-> [k \in 1..Len(features) |-> synced[k].feature],
         modified |-> \E k \in 1..Len(features) : synced[k].updated]

\* the position in VersionOrder of the first boundary file that is missing
\* (Len + 1 when none is): open() raises there
FirstMissingBoundary(bnds) ==
    IF \A v \in Versions : bnds[v].exists THEN Len(VersionOrder) + 1
    ELSE CHOOSE i \in 1..Len(VersionOrder) :
            /\ ~bnds[VersionOrder[i]].exists
            /\ \A m \in 1..(i - 1) : bnds[VersionOrder[m]].exists

sync_boundary_names(bnds, elecs) ==
    IF \E y \in Years : ~elecs[y].exists
    THEN [boundaries |-> bnds, written |-> {}, fixes |-> -1, error |-> "FileNotFoundError"]
    ELSE LET stop == FirstMissingBoundary(bnds)
             reached == {VersionOrder[i] : i \in 1..(stop - 1)}
             w == {v \in reached : SyncBoundaryFile(elecs, v, bnds[v].features).modified}
         IN  [boundaries |-> [v \in Versions |->
                                 IF v \in w
                                 THEN [bnds[v] EXCEPT
                                          !.features = SyncBoundaryFile(elecs, v, @).features]
                                 ELSE bnds[v]],
              written |-> {<<"boundaries", v>> : v \in w},
              fixes |-> IF stop > Len(VersionOrder) THEN Cardinality(w) ELSE -1,
              error |-> IF stop > Len(VersionOrder) THEN "none" ELSE "FileNotFoundError"]

----------------------------------------------------------------------------
(* validate *)

\* sorted(ids)[:10]
SortedIds(ids) == SelectSeq(IdOrder, LAMBDA x : x \in ids)

FirstN(s, n) == SubSeq(s, 1, IF Len(s) < n THEN Len(s) ELSE n)

ElectionIds(election) ==
    {election.constituencies[k].constituencyId : k \in 1..Len(election.constituencies)}

\* ids of the features whose id is truthy
BoundaryIds(boundary) ==
    {boundary.features[k].id : k \in {m \in 1..Len(boundary.features) : boundary.features[m].id # ""}}

\* the difference without the allow-list
MissingFromBoundaryAll(year_str, election, boundary) ==
    ElectionIds(election) \ BoundaryIds(boundary)

MissingFromBoundary(year_str, election, boundary) ==
    {m \in ElectionIds(election) \ BoundaryIds(boundary) : <<year_str, m>> \notin known_exceptions}

MissingFromElection(election, boundary) == BoundaryIds(boundary) \ ElectionIds(election)

\* what validate prints for one year
ValidateEntry(year_str, election, boundary) ==
    LET mfb == MissingFromBoundary(year_str, election, boundary)
        mfe == MissingFromElection(election, boundary)
    IN  [year |-> year_str,
         bv |-> year_to_boundary[year_str],
         ok |-> mfb = {} /\ mfe = {},
         missing_from_boundary |-> FirstN(SortedIds(mfb), ReportLimit),
         missing_from_election |-> FirstN(SortedIds(mfe), ReportLimit),
         constituencies |-> IF mfb = {} /\ mfe = {} THEN Cardinality(ElectionIds(election)) ELSE 0,
         mismatches |-> Cardinality(mfb) + Cardinality(mfe)]

\* the position in YearOrder of the first year whose election or boundary
\* file is missing (Len + 1 when none is)
FirstMissingYear(bnds, elecs) ==
    LET missing(i) == \/ ~elecs[YearOrder[i]].exists
                      \/ ~bnds[year_to_boundary[YearOrder[i]]].exists
    IN  IF \A i \in 1..Len(YearOrder) : ~missing(i) THEN Len(YearOrder) + 1
        ELSE CHOOSE i \in 1..Len(YearOrder) : missing(i) /\ \A m \in 1..(i - 1) : ~missing(m)

validate(bnds, elecs) ==
    LET stop == FirstMissingYear(bnds, elecs)
        entries == [i \in 1..(stop - 1) |->
                       ValidateEntry(YearOrder[i], elecs[YearOrder[i]],
                                     bnds[year_to_boundary[YearOrder[i]]])]
    IN  [report |-> [entries |-> entries,
                     total_mismatches |->
                         SumOver([i \in 1..(stop - 1) |-> entries[i].mismatches], 1),
                     complete |-> stop > Len(YearOrder)],
         error |-> IF stop > Len(YearOrder) THEN "none" ELSE "FileNotFoundError"]

NoReport == [entries |-> <<>>, total_mismatches |-> 0, complete |-> FALSE]

\* the value each handler returned in the last step; -1: it did not return
NoFixes == [e |-> -1, b |-> -1, w |-> -1, n |-> -1]

----------------------------------------------------------------------------
(* The handlers as steps *)

Snapshot == [boundaries |-> boundaries, elections |-> elections]

FixElectionFiles ==
    \E r \in {fix_election_files(elections)} :
        /\ elections' = r.elections
        /\ written' = r.written
        /\ fixes' = [NoFixes EXCEPT !.e = r.fixes]
        /\ last' = "fix_election_files"
        /\ before' = Snapshot
        /\ UNCHANGED runvars
        /\ error' = "none"
        /\ report' = NoReport
        /\ UNCHANGED boundaries

FixBoundaryFiles ==
    \E r \in {fix_boundary_files(boundaries)} :
        /\ boundaries' = r.boundaries
        /\ written' = r.written
        /\ fixes' = [NoFixes EXCEPT !.b = r.fixes]
        /\ last' = "fix_boundary_files"
        /\ before' = Snapshot
        /\ UNCHANGED runvars
        /\ error' = "none"
        /\ report' = NoReport
        /\ UNCHANGED elections

FixWindingOrder ==
    \E r \in {fix_winding_order(boundaries)} :
        /\ boundaries' = r.boundaries
        /\ written' = r.written
        /\ fixes' = [NoFixes EXCEPT !.w = r.fixes]
        /\ last' = "fix_winding_order"
        /\ before' = Snapshot
        /\ UNCHANGED runvars
        /\ error' = "none"
        /\ report' = NoReport
        /\ UNCHANGED elections

SyncBoundaryNames ==
    \E r \in {sync_boundary_names(boundaries, elections)} :
        /\ boundaries' = r.boundaries
        /\ written' = r.written
        /\ fixes' = [NoFixes EXCEPT !.n = r.fixes]
        /\ last' = "sync_boundary_names"
        /\ before' = Snapshot
        /\ UNCHANGED runvars
        /\ error' = r.error
        /\ report' = NoReport
        /\ UNCHANGED elections

Validate ==
    \E r \in {validate(boundaries, elections)} :
        /\ report' = r.report
        /\ error' = r.error
        /\ written' = {}
        /\ fixes' = NoFixes
        /\ last' = "validate"
        /\ before' = Snapshot
        /\ UNCHANGED runvars
        /\ UNCHANGED <<boundaries, elections>>

\* main: the four fixes and the validation in the order of the source; a
\* FileNotFoundError of sync_boundary_names ends the run before validate
Main ==
    \E e \in {fix_election_files(elections)}, b \in {fix_boundary_files(boundaries)} :
    \E w \in {fix_winding_order(b.boundaries)} :
    \E n \in {sync_boundary_names(w.boundaries, e.elections)} :
    \E v \in {validate(n.boundaries, e.elections)} :
        /\ boundaries' = n.boundaries
        /\ elections' = e.elections
        /\ written' = e.written \cup b.written \cup w.written \cup n.written
        /\ fixes' = [e |-> e.fixes, b |-> b.fixes, w |-> w.fixes, n |-> n.fixes]
        /\ report' = IF n.error = "none" THEN v.report ELSE NoReport
        /\ error' = IF n.error = "none" THEN v.error ELSE n.error
        /\ last' = "main"
        /\ before' = Snapshot
        /\ UNCHANGED runvars

----------------------------------------------------------------------------
(* Input documents *)

MaxWindFeatures == 2      \* features per document, winding inputs
MaxConstituencies == 2    \* constituencies per election document
MaxNameFeatures == 1      \* features per document, name inputs
MaxNameConstituencies == 1  \* constituencies per election document, name inputs

Polygon(rings) == [type |-> "Polygon", coordinates |-> rings]
MultiPolygon(polygons) == [type |-> "MultiPolygon", coordinates |-> polygons]
PointGeometry == [type |-> "Point", coordinates |-> <<0, 48>>]

Feature(id, name, normalizedName, geometry) ==
    [id |-> id, Name |-> name, normalizedName |-> normalizedName, geometry |-> geometry]

\* json.load: the features become objects, told apart by obj
WithObj(fs) ==
    [k \in 1..Len(fs) |->
        [id |-> fs[k].id, Name |-> fs[k].Name, normalizedName |-> fs[k].normalizedName,
         geometry |-> fs[k].geometry, obj |-> k]]

BoundaryFile(fs) == [exists |-> TRUE, features |-> WithObj(fs)]

Constituency(id, name, year) ==
    [constituencyId |-> id, constituencyName |-> name, year |-> year]

YearNumber ==
    [y \in Years |->
        CASE y = "1955" -> 1955 [] y = "1959" -> 1959 [] y = "1964" -> 1964
          [] y = "1966" -> 1966 [] y = "1970" -> 1970 [] y = "197402" -> 197402
          [] y = "197410" -> 197410 [] y = "1979" -> 1979 [] y = "1983" -> 1983
          [] y = "1987" -> 1987 [] y = "1992" -> 1992 [] y = "1997" -> 1997
          [] y = "2001" -> 2001 [] y = "2005" -> 2005 [] y = "2010" -> 2010
          [] y = "2015" -> 2015 [] y = "2017" -> 2017 [] y = "2019" -> 2019
          [] OTHER -> 2024]

ElectionFile(y, cs) ==
    [exists |-> TRUE, boundaryVersion |-> year_to_boundary[y], year |-> YearNumber[y],
     constituencies |-> cs]

Ayr == <<"A", "y", "r">>
AyrLower == <<"a", "y", "r">>
AyrN == <<"A", "y", "r", " ", "N">>
AyrNLower == <<"a", "y", "r", " ", "n">>
AyrNorth == <<"a", "y", "r", " ", "n", "o", "r", "t", "h">>

\* rings: clockwise, counter-clockwise, flat, and two spikes that go out and
\* come back along the same points
RingCW == << <<0, 48>>, <<0, 56>>, <<1, 48>>, <<0, 48>> >>
RingCCW == << <<0, 48>>, <<1, 48>>, <<0, 56>>, <<0, 48>> >>
RingFlat == << <<0, 48>>, <<1, 48>>, <<0, 48>> >>
RingSpikeUp == << <<1, 48>>, <<7, 60>>, <<7, 60>>, <<1, 48>> >>
RingSpikeDown == << <<1, 48>>, <<7, 52>>, <<7, 52>>, <<1, 48>> >>

DefaultBoundary == BoundaryFile(<<Feature("EC_ABERAVON", Ayr, AyrLower, Polygon(<<RingCW>>))>>)

DefaultElection(y) == ElectionFile(y, <<Constituency("EC_ABERAVON", Ayr, YearNumber[y])>>)

DefaultElections == [y \in Years |-> DefaultElection(y)]

\* no script is running and none has run
NoScript == [script |-> "none", at |-> "idle", i |-> 0]
NoNorm == [x |-> <<>>, y |-> <<>>, nx |-> <<>>, ny |-> <<>>, nnx |-> <<>>, done |-> FALSE]
DefaultCoastline == [exists |-> TRUE, mask |-> "all"]

NoDocument ==
    [features |-> <<>>, modified_count |-> 0, coords_before_total |-> 0,
     coords_after_total |-> 0, warnings |-> <<>>]

InitRun ==
    /\ pc = NoScript
    /\ loaded = NoDocument
    /\ warnings = <<>>
    /\ partial = {}
    /\ stages = <<>>
    /\ clip_result = <<>>

InitHandlers ==
    /\ last = "none"
    /\ before = Snapshot
    /\ written = {}
    /\ fixes = NoFixes
    /\ report = NoReport
    /\ error = "none"
    /\ coastline = DefaultCoastline
    /\ InitRun

InitRest == InitHandlers /\ norm = NoNorm

\* --- inputs of fix_winding_order: one document with rings of every kind
WindRings == {RingCW, RingCCW, RingFlat, RingSpikeUp, RingSpikeDown}
WindPolygons == NonEmptySeqsUpTo(WindRings, MaxRings)
WindGeometries ==
    {Polygon(rs) : rs \in WindPolygons}
    \cup {MultiPolygon(ps) : ps \in NonEmptySeqsUpTo(WindPolygons, MaxPolys)}
    \cup {PointGeometry}
WindDocuments ==
    {<<Feature("EC_ABERAVON", Ayr, AyrLower, g)>> : g \in WindGeometries}
    \cup SeqsUpTo({Feature("EC_ABERAVON", Ayr, AyrLower, Polygon(<<r>>)) : r \in WindRings},
                  MaxWindFeatures)

InitWinding ==
    /\ \E v \in Versions, fs \in WindDocuments :
          boundaries = [w \in Versions |-> IF w = v THEN BoundaryFile(fs) ELSE DefaultBoundary]
    /\ elections = DefaultElections
    /\ InitRest

\* --- inputs of fix_boundary_files: one document with the identifiers the
\* rules of its era are about, north of, south of and without a latitude
RingNorth == << <<0, 56>>, <<1, 56>>, <<0, 56>> >>
RingSouth == << <<0, 48>>, <<1, 48>>, <<0, 48>> >>
ReconGeometries ==
    {Polygon(<<RingNorth>>), MultiPolygon(<< <<RingSouth>>, <<RingSouth>> >>), PointGeometry}

ReconIds(v) ==
    {"EC_THE_WREKIN", "EC_WREKIN__THE"}
    \cup (IF v \in {"1955", "1974", "1983"} THEN {"EC_RICHMOND"} ELSE {})
    \cup (IF v \in {"1997", "2005", "2024"} THEN {"EC_", ""} ELSE {})
    \cup (IF v = "2010" THEN {"EC_ABERAVON"} ELSE {})

\* the geometry varies where a rule reads it: the Richmond split reads the
\* latitudes, the deduplication of 2010 the number of points
ReconGeometriesOf(v, id) ==
    IF v = "2010" \/ id = "EC_RICHMOND" THEN ReconGeometries ELSE {Polygon(<<RingNorth>>)}

ReconFeatures(v) ==
    UNION {{Feature(id, Ayr, AyrLower, g) : g \in ReconGeometriesOf(v, id)} : id \in ReconIds(v)}

ReconDocuments(v) == SeqsUpTo(ReconFeatures(v), MaxFeatures)

InitRecon ==
    /\ \E v \in Versions : \E fs \in ReconDocuments(v) :
          boundaries = [w \in Versions |-> IF w = v THEN BoundaryFile(fs) ELSE DefaultBoundary]
    /\ elections = DefaultElections
    /\ InitRest

\* --- inputs of validate: the identifiers of one election document and of
\* the boundary document of its era
\* the years whose documents vary: a first and a later year of an era, the
\* year of the allow-list, the two years that share the 1997 boundaries
ValidateYears == {"1955", "1959", "1992", "1997", "2001", "2024"}
ValidateIds == {"EC_ABERAVON", "EC_MILTON_KEYNES_NORTH_EAST", ""}
ManyIds == SubSeq(IdOrder, 3, ReportLimit + 4)
ValidateIdSeqs == SeqsUpTo(ValidateIds, MaxConstituencies) \cup {ManyIds}

InitValidate ==
    /\ \E y \in ValidateYears, es \in ValidateIdSeqs, bs \in ValidateIdSeqs :
          /\ elections = [z \in Years |->
                IF z = y
                THEN ElectionFile(y, [k \in 1..Len(es) |-> Constituency(es[k], Ayr, YearNumber[y])])
                ELSE DefaultElection(z)]
          /\ boundaries = [w \in Versions |->
                IF w = year_to_boundary[y]
                THEN BoundaryFile([k \in 1..Len(bs) |->
                        Feature(bs[k], Ayr, AyrLower, Polygon(<<RingCW>>))])
                ELSE DefaultBoundary]
    /\ InitRest

\* --- inputs of a whole run: the names of one boundary document and of the
\* first election document of its era
NameFeatures ==
    {Feature(id, nm[1], nm[2], Polygon(<<RingNorth>>)) :
        id \in {"EC_ABERAVON", "EC_", "EC_RICHMOND"},
        nm \in {<<AyrN, AyrNorth>>, <<AyrN, AyrNLower>>}}
NameConstituencies ==
    {Constituency(id, nm, 0) :
        id \in {"EC_ABERAVON", "EC_SOUTHEND_WEST"}, nm \in {AyrN, Ayr}}
FirstYearOf(v) ==
    YearOrder[CHOOSE i \in 1..Len(YearOrder) :
                 /\ year_to_boundary[YearOrder[i]] = v
                 /\ \A m \in 1..(i - 1) : year_to_boundary[YearOrder[m]] # v]

Init ==
    /\ \E v \in Versions, fs \in SeqsUpTo(NameFeatures, MaxNameFeatures),
          cs \in SeqsUpTo(NameConstituencies, MaxNameConstituencies) :
          /\ boundaries = [w \in Versions |-> IF w = v THEN BoundaryFile(fs) ELSE DefaultBoundary]
          /\ elections = [z \in Years |->
                IF z = FirstYearOf(v) THEN ElectionFile(z, cs) ELSE DefaultElection(z)]
    /\ InitRest

----------------------------------------------------------------------------
(* Specifications *)

Next ==
    \/ FixElectionFiles
    \/ FixBoundaryFiles
    \/ FixWindingOrder
    \/ SyncBoundaryNames
    \/ Validate
    \/ Main

Spec == Init /\ [][Next]_vars

NextWinding == FixWindingOrder
SpecWinding == InitWinding /\ [][NextWinding]_vars

NextRecon == FixBoundaryFiles
SpecRecon == InitRecon /\ [][NextRecon]_vars

NextValidate == Validate
SpecValidate == InitValidate /\ [][NextValidate]_vars

----------------------------------------------------------------------------
(* Properties *)

\* the feature object obj in a list of features
HasObj(features, o) == \E k \in 1..Len(features) : features[k].obj = o
ByObj(features, o) == features[CHOOSE k \in 1..Len(features) : features[k].obj = o]
IndexOfObj(features, o) == CHOOSE k \in 1..Len(features) : features[k].obj = o

\* the existing boundary files a handler has just processed
Processed(handler) == IF last = handler THEN {v \in Versions : boundaries[v].exists} ELSE {}

RingsCanonical(rings) ==
    \A i \in 1..Len(rings) :
        IF i = 1 THEN ring_signed_area(rings[i]) <= 0 ELSE ring_signed_area(rings[i]) >= 0

GeometryCanonical(geom) ==
    /\ geom.type = "Polygon" => RingsCanonical(geom.coordinates)
    /\ geom.type = "MultiPolygon" =>
          \A p \in 1..Len(geom.coordinates) : RingsCanonical(geom.coordinates[p])

\* C1: after fix_winding_order has processed a boundary document, in every
\* polygon of every feature the ring at index 0 has signed area <= 0 and
\* every other ring has signed area >= 0.
C1_CanonicalOrientation ==
    \A v \in Processed("fix_winding_order") :
        \A k \in 1..Len(boundaries[v].features) :
            GeometryCanonical(boundaries[v].features[k].geometry)

\* C2: a run of fix_winding_order on the output of fix_winding_order
\* reverses no ring, leaves every document as it is and reports no file.
C2_WindingIdempotent ==
    last = "fix_winding_order" =>
        /\ fix_winding_order(boundaries).boundaries = boundaries
        /\ fix_winding_order(boundaries).fixes = 0
        /\ fix_winding_order(boundaries).written = {}

\* the features of a document as the deduplication step of
\* fix_boundary_files finds them
BeforeDedup(v) ==
    ApplyRenames(BOUNDARY_RENAMES[v],
                 EmptyFeatureFix(v, RichmondSplit(v, before.boundaries[v].features)))

GroupOf(features, fid) == {k \in 1..Len(features) : features[k].id = fid}

\* C3: in a dedup era, of the features that share an identifier when the
\* deduplication starts exactly one is in the output; it has the greatest
\* count_coords of its group and is the first of the group with that count;
\* a feature whose identifier is unique is in the output.
C3_DedupKeepsFirstLargest ==
    \A v \in Processed("fix_boundary_files") \cap DEDUP_VERSIONS :
        LET pre == BeforeDedup(v)
            out == boundaries[v].features
        IN  /\ \A k \in 1..Len(out) : HasObj(pre, out[k].obj) /\ ByObj(pre, out[k].obj) = out[k]
            /\ \A j \in 1..Len(pre) :
                  LET group == GroupOf(pre, pre[j].id)
                      kept == GroupOf(out, pre[j].id)
                  IN  /\ Cardinality(kept) = 1
                      /\ \A k \in kept :
                            LET s == IndexOfObj(pre, out[k].obj)
                            IN  /\ s \in group
                                /\ \A g \in group : count_coords(pre[g]) <= count_coords(pre[s])
                                /\ \A g \in group :
                                      count_coords(pre[g]) = count_coords(pre[s]) => s <= g

\* a group of three whose first member is smaller than the two others, which tie
C3_Witness ==
    /\ last = "fix_boundary_files"
    /\ \E v \in DEDUP_VERSIONS :
          /\ before.boundaries[v].exists
          /\ Len(boundaries[v].features) = 1
          /\ LET pre == BeforeDedup(v)
             IN  /\ Len(pre) = 3
                 /\ count_coords(pre[1]) < count_coords(pre[2])
                 /\ count_coords(pre[2]) = count_coords(pre[3])
                 /\ boundaries[v].features[1].obj = pre[2].obj

\* C4: after fix_boundary_files no two features of a boundary document of
\* any era have the same identifier.
C4_UniqueIdentifiers ==
    \A v \in Processed("fix_boundary_files") :
        \A j, k \in 1..Len(boundaries[v].features) :
            j # k => boundaries[v].features[j].id # boundaries[v].features[k].id

SplitHandles(v, feature) == v \in RICHMOND_SPLIT_VERSIONS /\ feature.id = "EC_RICHMOND"
EmptyHandles(v, feature) == v \in EMPTY_FEATURE_VERSIONS /\ feature.id = "EC_"

\* the features of an era without deduplication are all kept, in order
AllKept(v) ==
    /\ Len(boundaries[v].features) = Len(before.boundaries[v].features)
    /\ \A k \in 1..Len(boundaries[v].features) :
          boundaries[v].features[k].obj = before.boundaries[v].features[k].obj

\* C5: after fix_boundary_files no feature has an identifier that is a key
\* of the rename table of its era; a feature whose identifier was a key has
\* the mapped value; a feature whose identifier was no key and that neither
\* the split nor the empty-identifier rule handles keeps its identifier.
C5_RenamesApplied ==
    \A v \in Processed("fix_boundary_files") :
        LET pre == before.boundaries[v].features
            out == boundaries[v].features
            renames == BOUNDARY_RENAMES[v]
        IN  /\ v \notin DEDUP_VERSIONS => AllKept(v)
            /\ \A k \in 1..Len(out) :
                  /\ out[k].id \notin DOMAIN renames
                  /\ HasObj(pre, out[k].obj)
                  /\ LET old == ByObj(pre, out[k].obj)
                     IN  /\ old.id \in DOMAIN renames => out[k].id = renames[old.id]
                         /\ (old.id \notin DOMAIN renames /\ ~SplitHandles(v, old)
                             /\ ~EmptyHandles(v, old)) => out[k].id = old.id

\* two features with a key of the table are both renamed
C5_Witness ==
    /\ last = "fix_boundary_files"
    /\ \E v \in Versions :
          /\ before.boundaries[v].exists
          /\ Len(boundaries[v].features) >= 2
          /\ \E j, k \in 1..Len(boundaries[v].features) :
                /\ j # k
                /\ before.boundaries[v].features[j].id = "EC_THE_WREKIN"
                /\ before.boundaries[v].features[k].id = "EC_THE_WREKIN"
                /\ boundaries[v].features[j].id = "EC_WREKIN__THE"
                /\ boundaries[v].features[k].id = "EC_WREKIN__THE"

\* no mapped value of a rename table is a key of the same table
NoRenameChain ==
    \A v \in Versions : \A k \in DOMAIN BOUNDARY_RENAMES[v] :
        BOUNDARY_RENAMES[v][k] \notin DOMAIN BOUNDARY_RENAMES[v]

\* C6: a run of fix_boundary_files on the documents a first run produced
\* changes no feature and writes no file; each of the four steps, applied to
\* its own result, changes nothing; no rename table maps onto one of its keys.
C6_ReconciliationIdempotent ==
    /\ NoRenameChain
    /\ last = "fix_boundary_files" =>
          /\ fix_boundary_files(boundaries).boundaries = boundaries
          /\ fix_boundary_files(boundaries).written = {}
          /\ fix_boundary_files(boundaries).fixes = 0
    /\ \A v \in {w \in Versions : boundaries[w].exists} :
          LET fs == boundaries[v].features
              renames == BOUNDARY_RENAMES[v]
          IN  /\ RichmondSplit(v, RichmondSplit(v, fs)) = RichmondSplit(v, fs)
              /\ EmptyFeatureFix(v, EmptyFeatureFix(v, fs)) = EmptyFeatureFix(v, fs)
              /\ ApplyRenames(renames, ApplyRenames(renames, fs)) = ApplyRenames(renames, fs)
              /\ Deduplicate(v, Deduplicate(v, fs)) = Deduplicate(v, fs)

\* a first run that renamed and removed features of the 2010 document
C6_Witness ==
    /\ last = "fix_boundary_files"
    /\ <<"boundaries", "2010">> \in written
    /\ Len(boundaries["2010"].features) < Len(before.boundaries["2010"].features)
    /\ \E k \in 1..Len(before.boundaries["2010"].features) :
          before.boundaries["2010"].features[k].id = "EC_THE_WREKIN"

\* C7: in a split era a feature EC_RICHMOND whose mean latitude
\* (get_centroid_lat) is above 53 becomes EC_RICHMOND__YORKS_ 'Richmond
\* (Yorks.)', one whose mean latitude is below 53 EC_RICHMOND__SURREY_
\* 'Richmond (Surrey)', and no feature EC_RICHMOND is left; in the other
\* eras a feature EC_RICHMOND is left as it is.
C7_RichmondSplitByLatitude ==
    \A v \in Processed("fix_boundary_files") :
        LET pre == before.boundaries[v].features
            out == boundaries[v].features
        IN  /\ v \in RICHMOND_SPLIT_VERSIONS =>
                  /\ AllKept(v)
                  /\ \A k \in 1..Len(out) : out[k].id # "EC_RICHMOND"
            /\ \A k \in 1..Len(out) :
                  LET old == ByObj(pre, out[k].obj)
                  IN  old.id = "EC_RICHMOND" =>
                        IF v \in RICHMOND_SPLIT_VERSIONS
                        THEN /\ get_centroid_lat(old) > RichmondLat =>
                                   /\ out[k].id = "EC_RICHMOND__YORKS_"
                                   /\ out[k].Name = RichmondYorksName
                             /\ get_centroid_lat(old) < RichmondLat =>
                                   /\ out[k].id = "EC_RICHMOND__SURREY_"
                                   /\ out[k].Name = RichmondSurreyName
                        ELSE out[k] = old

\* a document with a Richmond north and a Richmond south of the threshold
C7_Witness ==
    /\ last = "fix_boundary_files"
    /\ \E v \in RICHMOND_SPLIT_VERSIONS :
          /\ before.boundaries[v].exists
          /\ \E j, k \in 1..Len(boundaries[v].features) :
                /\ before.boundaries[v].features[j].id = "EC_RICHMOND"
                /\ before.boundaries[v].features[k].id = "EC_RICHMOND"
                /\ get_centroid_lat(before.boundaries[v].features[j]) > RichmondLat
                /\ get_centroid_lat(before.boundaries[v].features[k]) < RichmondLat
                /\ get_centroid_lat(before.boundaries[v].features[k]) > 0
                /\ boundaries[v].features[j].id = "EC_RICHMOND__YORKS_"
                /\ boundaries[v].features[k].id = "EC_RICHMOND__SURREY_"

\* C8 as claimed: in an era of the empty-identifier-repair set every feature
\* whose identifier is empty or 'EC_' ends with identifier EC_SOUTHEND_WEST
\* and name 'Southend West'.
C8_EmptyOrPlaceholderRepaired ==
    \A v \in Processed("fix_boundary_files") \cap EMPTY_FEATURE_VERSIONS :
        /\ AllKept(v)
        /\ \A k \in 1..Len(boundaries[v].features) :
              before.boundaries[v].features[k].id \in {"", "EC_"} =>
                  /\ boundaries[v].features[k].id = "EC_SOUTHEND_WEST"
                  /\ boundaries[v].features[k].Name = SouthendWestName

\* C8, amended: in an era of the empty-identifier-repair set every feature
\* whose identifier is the placeholder 'EC_' ends with identifier
\* EC_SOUTHEND_WEST and name 'Southend West'; a feature whose identifier is
\* the empty string is left as it is.
C8_PlaceholderRepaired ==
    \A v \in Processed("fix_boundary_files") \cap EMPTY_FEATURE_VERSIONS :
        /\ AllKept(v)
        /\ \A k \in 1..Len(boundaries[v].features) :
              /\ before.boundaries[v].features[k].id = "EC_" =>
                    /\ boundaries[v].features[k].id = "EC_SOUTHEND_WEST"
                    /\ boundaries[v].features[k].Name = SouthendWestName
              /\ before.boundaries[v].features[k].id = "" =>
                    boundaries[v].features[k] = before.boundaries[v].features[k]

\* a document with a placeholder and an empty identifier
C8_Witness ==
    /\ last = "fix_boundary_files"
    /\ \E v \in EMPTY_FEATURE_VERSIONS :
          /\ before.boundaries[v].exists
          /\ \E j, k \in 1..Len(boundaries[v].features) :
                /\ before.boundaries[v].features[j].id = "EC_"
                /\ before.boundaries[v].features[k].id = ""
                /\ boundaries[v].features[j].id = "EC_SOUTHEND_WEST"
                /\ boundaries[v].features[j].Name = SouthendWestName

AllBoundaryIds(boundary) == {boundary.features[k].id : k \in 1..Len(boundary.features)}

SeqRange(s) == {s[k] : k \in 1..Len(s)}

IdPos(x) == CHOOSE i \in 1..Len(IdOrder) : IdOrder[i] = x

\* s lists the identifiers of ids in ascending order, the first ReportLimit
\* of them when there are more
ListsFirst(s, ids) ==
    /\ Len(s) = IF Cardinality(ids) < ReportLimit THEN Cardinality(ids) ELSE ReportLimit
    /\ SeqRange(s) \subseteq ids
    /\ \A j, k \in 1..Len(s) : j < k => IdPos(s[j]) < IdPos(s[k])
    /\ \A x \in ids \ SeqRange(s) : \A k \in 1..Len(s) : IdPos(s[k]) < IdPos(x)

C10_NormalizedNames ==
    (last = "main" /\ error = "none") =>
        \A v \in {w \in Versions : boundaries[w].exists} :
            \A k \in 1..Len(boundaries[v].features) :
                boundaries[v].features[k].normalizedName =
                    normalize_constituency_name(boundaries[v].features[k].Name)

----------------------------------------------------------------------------
(* scripts/clip_to_coastline.py *)
(*                                                                         *)
(* Coordinates of the documents of this script are counted in thirds of a  *)
(* millidegree, so that round(c, 3) always has a nearest value.  A shapely *)
(* geometry is [geom_type, is_empty, area, rings, geoms]; its area is      *)
(* counted in units of 1e-6 square degrees.  shapely is not part of the    *)
(* repository: shape() fails as the comment of line 122 says, and what     *)
(* make_valid and intersection return is fixed by the kind of land mask    *)
(* the run has loaded.                                                     *)

BOUNDARY_VERSIONS == <<"1955", "1974", "1983", "1997", "2005", "2010", "2024">>

\* MIN_AREA = 1e-6
MIN_AREA == 1

\* precision=3 of round_coords: a millidegree is three units
Precision == 3

\* round(c, precision)
RoundCoord(c) ==
    LET r == c % Precision
    IN  IF 2 * r < Precision THEN c - r ELSE c - r + Precision

\* round_coords on a point, a ring, the rings of a polygon, the polygons
RoundPoint(p) == [i \in 1..Len(p) |-> RoundCoord(p[i])]
RoundRing(ring) == [i \in 1..Len(ring) |-> RoundPoint(ring[i])]
RoundRings(rings) == [i \in 1..Len(rings) |-> RoundRing(rings[i])]
round_coords(geometry_dict) ==
    IF geometry_dict.type = "Polygon" THEN RoundRings(geometry_dict.coordinates)
    ELSE [p \in 1..Len(geometry_dict.coordinates) |-> RoundRings(geometry_dict.coordinates[p])]

\* count_coords of clip_to_coastline.py, on a geometry dict
clip_count_coords(geometry_dict) ==
    IF geometry_dict.type = "Polygon"
    THEN SumOver([i \in 1..Len(geometry_dict.coordinates) |->
                     Len(geometry_dict.coordinates[i])], 1)
    ELSE IF geometry_dict.type = "MultiPolygon"
    THEN SumOver([p \in 1..Len(geometry_dict.coordinates) |->
                     SumOver([i \in 1..Len(geometry_dict.coordinates[p]) |->
                                 Len(geometry_dict.coordinates[p][i])], 1)], 1)
    ELSE 0

\* --- shapely geometries
PolygonValue(rings, area) ==
    [geom_type |-> "Polygon", is_empty |-> FALSE, area |-> area, rings |-> rings,
     geoms |-> <<>>]
CollectionValue(geom_type, geoms) ==
    [geom_type |-> geom_type, is_empty |-> geoms = <<>>, area |-> 0, rings |-> <<>>,
     geoms |-> geoms]
LineValue ==
    [geom_type |-> "LineString", is_empty |-> FALSE, area |-> 0, rings |-> <<>>,
     geoms |-> <<>>]
EmptyValue == CollectionValue("GeometryCollection", <<>>)

\* shape(geom_dict) raises: a ring with fewer than 4 points
MinRingPoints == 4
ShapeFails(geom_dict) ==
    \/ /\ geom_dict.type = "Polygon"
       /\ \E i \in 1..Len(geom_dict.coordinates) :
             Len(geom_dict.coordinates[i]) < MinRingPoints
    \/ /\ geom_dict.type = "MultiPolygon"
       /\ \E p \in 1..Len(geom_dict.coordinates) :
             \E i \in 1..Len(geom_dict.coordinates[p]) :
                Len(geom_dict.coordinates[p][i]) < MinRingPoints

\* the polygons of a geometry dict, each a sequence of rings
PolygonsOf(geom_dict) ==
    IF geom_dict.type = "Polygon" THEN <<geom_dict.coordinates>>
    ELSE IF geom_dict.type = "MultiPolygon" THEN geom_dict.coordinates
    ELSE <<>>

\* the kinds of land mask
LandArea == 5
MaskKinds ==
    {"all", "none", "error", "touch", "sliver", "coast", "shift", "islands", "split"}

ShiftRings(rings) ==
    [i \in 1..Len(rings) |-> [k \in 1..Len(rings[i]) |->
        <<rings[i][k][1] + 1, rings[i][k][2] + 1>>]]
TrimRings(rings) ==
    [i \in 1..Len(rings) |->
        IF i = 1 THEN <<rings[1][1], <<rings[1][1][1] + 1, rings[1][1][2] + 2>>>>
                      \o Tail(rings[1])
        ELSE rings[i]]

\* --- a land mask with a straight coast: the land is the half plane
\* x + y <= bound, in the units of the coordinates
HalfPlaneBound ==
    [m \in {"x + y <= 20", "x + y <= 21", "x + y <= 22", "x + y <= 60"} |->
        CASE m = "x + y <= 20" -> 20
          [] m = "x + y <= 21" -> 21
          [] m = "x + y <= 22" -> 22
          [] OTHER -> 60]
HalfPlaneMasks == DOMAIN HalfPlaneBound

OnLand(p, bound) == p[1] + p[2] <= bound

\* where the edge from p to q meets the coast
Crossing(p, q, bound) ==
    LET sp == p[1] + p[2]
        sq == q[1] + q[2]
    IN  <<p[1] + ((bound - sp) * (q[1] - p[1])) \div (sq - sp),
          p[2] + ((bound - sp) * (q[2] - p[2])) \div (sq - sp)>>

\* the points of a closed ring that are on land, and the crossings of its
\* edges with the coast, in the order of the ring
RECURSIVE ClipEdges(_, _, _)
ClipEdges(ring, i, bound) ==
    IF i >= Len(ring) THEN <<>>
    ELSE (IF OnLand(ring[i], bound) THEN <<ring[i]>> ELSE <<>>)
         \o (IF OnLand(ring[i], bound) # OnLand(ring[i + 1], bound)
             THEN <<Crossing(ring[i], ring[i + 1], bound)>> ELSE <<>>)
         \o ClipEdges(ring, i + 1, bound)

\* a point is not repeated
RECURSIVE NoRepeats(_, _)
NoRepeats(points, i) ==
    IF i > Len(points) THEN <<>>
    ELSE (IF \/ (i > 1 /\ points[i] = points[i - 1])
             \/ (i = Len(points) /\ i > 1 /\ points[i] = points[1])
          THEN <<>> ELSE <<points[i]>>)
         \o NoRepeats(points, i + 1)

\* twice the area of a closed ring, in square units
RECURSIVE TwiceArea(_, _)
TwiceArea(ring, i) ==
    IF i >= Len(ring) THEN 0
    ELSE ring[i][1] * ring[i + 1][2] - ring[i + 1][1] * ring[i][2] + TwiceArea(ring, i + 1)

\* 1e-6 square degrees are nine square units, a unit being a third of a
\* millidegree
UnitsPerArea == 9

\* the polygon left of the cut rings: nothing, a line along the coast, or
\* the rings that still enclose an area
CutPolygon(cut) ==
    LET kept == SelectSeq(cut, LAMBDA points : Len(points) >= 3)
        closed == [i \in 1..Len(kept) |-> Append(kept[i], kept[i][1])]
    IN  IF Len(cut) = 0 \/ Len(cut[1]) = 0 THEN EmptyValue
        ELSE IF Len(cut[1]) < 3 THEN LineValue
        ELSE PolygonValue(closed, Abs(TwiceArea(closed[1], 1)) \div (2 * UnitsPerArea))

\* the part of a polygon on land: its rings cut at the coast
HalfPlaneClip(rings, bound) ==
    CutPolygon([i \in 1..Len(rings) |-> NoRepeats(ClipEdges(rings[i], 1, bound), 1)])

\* the value of the parts on land: one geometry, or a collection of them
Collected(parts) ==
    IF Len(parts) = 0 THEN EmptyValue
    ELSE IF Len(parts) = 1 THEN parts[1]
    ELSE IF \A i \in 1..Len(parts) : parts[i].geom_type = "Polygon"
    THEN CollectionValue("MultiPolygon", parts)
    ELSE CollectionValue("GeometryCollection", parts)

\* the parts on land of the polygons of a geometry
HalfPlaneParts(polys, bound) ==
    IF Len(polys) = 0 THEN <<LineValue>>
    ELSE SelectSeq([p \in 1..Len(polys) |-> HalfPlaneClip(polys[p], bound)],
                   LAMBDA g : ~g.is_empty)

HalfPlaneIntersection(geom_dict, bound) ==
    Collected(HalfPlaneParts(PolygonsOf(geom_dict), bound))

\* make_valid(shape(geom_dict)).intersection(land_mask): raised, or the value
Intersection(geom_dict, mask) ==
    LET polys == PolygonsOf(geom_dict)
        whole == IF Len(polys) = 0 THEN LineValue
                 ELSE IF geom_dict.type = "Polygon" THEN PolygonValue(polys[1], LandArea)
                 ELSE CollectionValue("MultiPolygon",
                          [p \in 1..Len(polys) |-> PolygonValue(polys[p], LandArea)])
        value ==
            CASE mask \in HalfPlaneMasks -> HalfPlaneIntersection(geom_dict, HalfPlaneBound[mask])
              [] mask = "all" -> whole
              [] mask = "none" -> EmptyValue
              [] mask = "touch" -> LineValue
              [] mask = "sliver" ->
                    IF Len(polys) = 0 THEN EmptyValue ELSE PolygonValue(polys[1], 0)
              [] mask = "coast" ->
                    IF Len(polys) = 0 THEN EmptyValue
                    ELSE IF geom_dict.type = "Polygon"
                    THEN PolygonValue(TrimRings(polys[1]), LandArea)
                    ELSE CollectionValue("MultiPolygon",
                            [p \in 1..Len(polys) |-> PolygonValue(TrimRings(polys[p]), LandArea)])
              [] mask = "shift" ->
                    IF Len(polys) = 0 THEN EmptyValue
                    ELSE IF geom_dict.type = "Polygon"
                    THEN PolygonValue(ShiftRings(polys[1]), LandArea)
                    ELSE CollectionValue("MultiPolygon",
                            [p \in 1..Len(polys) |-> PolygonValue(ShiftRings(polys[p]), LandArea)])
              [] mask = "islands" ->
                    IF Len(polys) = 0 THEN EmptyValue
                    ELSE CollectionValue("GeometryCollection",
                            <<CollectionValue("MultiPolygon",
                                  <<PolygonValue(polys[1], LandArea), PolygonValue(polys[1], 0)>>),
                              LineValue>>)
              [] mask = "split" ->
                    IF Len(polys) = 0 THEN EmptyValue
                    ELSE CollectionValue("MultiPolygon",
                            <<PolygonValue(polys[1], LandArea), PolygonValue(polys[1], LandArea)>>)
              [] OTHER -> EmptyValue
    IN  [raised |-> mask = "error", value |-> value]

\* extract_polygons
RECURSIVE ExtractFrom(_, _)
RECURSIVE extract_polygons(_)
ExtractFrom(geoms, i) ==
    IF i > Len(geoms) THEN <<>>
    ELSE extract_polygons(geoms[i]) \o ExtractFrom(geoms, i + 1)
\* every polygon met, whatever its area
extract_polygons_all(geom) ==
    IF geom.is_empty THEN <<>>
    ELSE IF geom.geom_type = "Polygon" THEN <<geom>>
    ELSE IF geom.geom_type = "MultiPolygon" THEN geom.geoms
    ELSE IF geom.geom_type = "GeometryCollection" THEN ExtractFrom(geom.geoms, 1)
    ELSE <<>>

extract_polygons(geom) ==
    IF geom.is_empty THEN <<>>
    ELSE IF geom.geom_type = "Polygon"
    THEN IF geom.area >= MIN_AREA THEN <<geom>> ELSE <<>>
    ELSE IF geom.geom_type = "MultiPolygon"
    THEN SelectSeq(geom.geoms, LAMBDA poly : poly.area >= MIN_AREA)
    ELSE IF geom.geom_type = "GeometryCollection"
    THEN ExtractFrom(geom.geoms, 1)
    ELSE <<>>

\* mapping(result_geom), with the coordinates rounded: result_dict
ResultDict(polygons) ==
    LET result_dict ==
            IF Len(polygons) = 1
            THEN [type |-> "Polygon", coordinates |-> polygons[1].rings]
            ELSE [type |-> "MultiPolygon",
                  coordinates |-> [p \in 1..Len(polygons) |-> polygons[p].rings]]
    IN  [result_dict EXCEPT !.coordinates = round_coords(result_dict)]

\* one pass of the loop of clip_boundary_file over a feature: the feature,
\* whether it counts as modified, its points before and after, what is printed
\* the loop body without the test of line 162
ClipFeatureAlways(feature, land_mask) ==
    LET geom_dict == feature.geometry
        clipped == Intersection(geom_dict, land_mask)
        polygons == extract_polygons(clipped.value)
    IN  IF ShapeFails(geom_dict) \/ clipped.raised \/ clipped.value.is_empty \/ polygons = <<>>
        THEN [feature |-> feature, modified |-> 0,
              coords_before |-> clip_count_coords(geom_dict),
              coords_after |-> clip_count_coords(geom_dict),
              warnings |-> IF ShapeFails(geom_dict) THEN <<>>
                           ELSE <<[kind |-> "no polygon parts", fid |-> feature.id]>>]
        ELSE [feature |-> [feature EXCEPT !.geometry = ResultDict(polygons)], modified |-> 1,
              coords_before |-> clip_count_coords(geom_dict),
              coords_after |-> clip_count_coords(ResultDict(polygons)),
              warnings |-> <<>>]

NoWarning == <<>>
Warning(kind, fid) == <<[kind |-> kind, fid |-> fid]>>
ClipFeature(feature, land_mask) ==
    LET geom_dict == feature.geometry
        fid == feature.id
        coords_before == clip_count_coords(geom_dict)
        kept(w) == [feature |-> feature, modified |-> 0, coords_before |-> coords_before,
                    coords_after |-> coords_before, warnings |-> w]
        clipped == Intersection(geom_dict, land_mask)
        polygons == extract_polygons(clipped.value)
        result_dict == ResultDict(polygons)
        coords_after == clip_count_coords(result_dict)
    IN  IF ShapeFails(geom_dict) THEN kept(NoWarning)
        ELSE IF clipped.raised THEN kept(Warning("intersection failed", fid))
        ELSE IF clipped.value.is_empty THEN kept(Warning("empty intersection", fid))
        ELSE IF polygons = <<>> THEN kept(Warning("no polygon parts", fid))
        ELSE IF result_dict.type # geom_dict.type \/ coords_after # coords_before
        THEN [feature |-> [feature EXCEPT !.geometry = result_dict], modified |-> 1,
              coords_before |-> coords_before, coords_after |-> coords_after,
              warnings |-> NoWarning]
        ELSE [feature |-> feature, modified |-> 0, coords_before |-> coords_before,
              coords_after |-> coords_after, warnings |-> NoWarning]

\* a loop that leaves out the features it could not clip
ClipDocumentDropFailed(features, land_mask) ==
    LET rs == SelectSeq([k \in 1..Len(features) |-> ClipFeature(features[k], land_mask)],
                        LAMBDA r : r.warnings = <<>>)
    IN  [features |-> [k \in 1..Len(rs) |-> rs[k].feature],
         modified_count |-> 0,
         coords_before_total |-> 0,
         coords_after_total |-> 0,
         warnings |-> <<>>]

RECURSIVE ConcatWarnings(_, _)
ConcatWarnings(rs, i) == IF i > Len(rs) THEN <<>> ELSE rs[i].warnings \o ConcatWarnings(rs, i + 1)

\* clip_boundary_file up to the write: data and the three numbers it returns
ClipDocument(features, land_mask) ==
    LET rs == [k \in 1..Len(features) |-> ClipFeature(features[k], land_mask)]
    IN  [features |-> [k \in 1..Len(features) |-> rs[k].feature],
         modified_count |-> SumOver([k \in 1..Len(features) |-> rs[k].modified], 1),
         coords_before_total |-> SumOver([k \in 1..Len(features) |-> rs[k].coords_before], 1),
         coords_after_total |-> SumOver([k \in 1..Len(features) |-> rs[k].coords_after], 1),
         warnings |-> ConcatWarnings(rs, 1)]

\* --- main of clip_to_coastline.py, step by step

AbsentBoundary == [exists |-> FALSE, features |-> <<>>]

At(script, at) == pc.script = script /\ pc.at = at

\* a test of the coastline file that never fails
CoastlineNeverMissing == FALSE

\* os.path.exists(COASTLINE_PATH) is false
CoastlineMissing == ~coastline.exists

\* lines 174-181: sys.exit(1) without the coastline, else load_land_mask
ClipStart ==
    /\ pc = NoScript \/ At("fix_data", "done")
    /\ \A i \in 1..Len(stages) : stages[i][1] \notin {"load_land_mask", "clip"}
    /\ pc' = IF CoastlineMissing THEN [script |-> "clip", at |-> "exit", i |-> 0]
             ELSE [script |-> "clip", at |-> "loop", i |-> 1]
    /\ error' = IF CoastlineMissing THEN "SystemExit" ELSE "none"
    /\ stages' = IF CoastlineMissing THEN stages ELSE Append(stages, <<"load_land_mask", "">>)
    /\ last' = "clip_to_coastline"
    /\ before' = Snapshot
    /\ written' = {}
    /\ warnings' = <<>>
    /\ clip_result' = <<>>
    /\ UNCHANGED <<boundaries, loaded, partial, elections, fixes, report, norm, coastline>>

\* lines 186-190: the file of the version is not there
ClipSkip ==
    /\ At("clip", "loop")
    /\ pc.i <= Len(BOUNDARY_VERSIONS)
    /\ ~boundaries[BOUNDARY_VERSIONS[pc.i]].exists
    /\ pc' = [pc EXCEPT !.i = @ + 1]
    /\ warnings' = warnings \o Warning("file not found, skipping", BOUNDARY_VERSIONS[pc.i])
    /\ UNCHANGED <<boundaries, loaded, partial, stages, clip_result, last, before, written,
                   error, elections, fixes, report, norm, coastline>>

\* lines 104-164 of clip_boundary_file: json.load and the loop over the features
ClipLoad ==
    /\ At("clip", "loop")
    /\ pc.i <= Len(BOUNDARY_VERSIONS)
    /\ boundaries[BOUNDARY_VERSIONS[pc.i]].exists
    /\ \E r \in {ClipDocument(boundaries[BOUNDARY_VERSIONS[pc.i]].features, coastline.mask)} :
          /\ loaded' = r
          /\ warnings' = warnings \o r.warnings
    /\ pc' = [pc EXCEPT !.at = "write"]
    /\ UNCHANGED <<boundaries, partial, stages, clip_result, last, before, written,
                   error, elections, fixes, report, norm, coastline>>

\* line 167: open(filepath, 'w') truncates the file
ClipOpen ==
    /\ At("clip", "write")
    /\ partial' = partial \cup {BOUNDARY_VERSIONS[pc.i]}
    /\ written' = written \cup {<<"boundaries", BOUNDARY_VERSIONS[pc.i]>>}
    /\ pc' = [pc EXCEPT !.at = "dump"]
    /\ UNCHANGED <<boundaries, loaded, warnings, stages, clip_result, last, before,
                   error, elections, fixes, report, norm, coastline>>

\* lines 168-170 and 192-196: json.dump, the file is closed, the numbers returned
ClipDump ==
    /\ At("clip", "dump")
    /\ boundaries' = [boundaries EXCEPT ![BOUNDARY_VERSIONS[pc.i]].features = loaded.features]
    /\ partial' = partial \ {BOUNDARY_VERSIONS[pc.i]}
    /\ clip_result' = Append(clip_result,
                             [version |-> BOUNDARY_VERSIONS[pc.i],
                              modified |-> loaded.modified_count,
                              before |-> loaded.coords_before_total,
                              after |-> loaded.coords_after_total])
    /\ stages' = Append(stages, <<"clip", BOUNDARY_VERSIONS[pc.i]>>)
    /\ loaded' = NoDocument
    /\ pc' = [pc EXCEPT !.at = "loop", !.i = @ + 1]
    /\ UNCHANGED <<warnings, last, before, written, error, elections, fixes, report, norm,
                   coastline>>

\* line 198: the loop is over
ClipDone ==
    /\ At("clip", "loop")
    /\ pc.i > Len(BOUNDARY_VERSIONS)
    /\ pc' = [pc EXCEPT !.at = "done"]
    /\ UNCHANGED <<boundaries, loaded, warnings, partial, stages, clip_result, last, before,
                   written, error, elections, fixes, report, norm, coastline>>

\* the process is killed (a signal, a full disk, a power cut) where it is
Interrupt ==
    /\ pc.script = "clip"
    /\ pc.at \in {"loop", "write", "dump"}
    /\ pc' = [pc EXCEPT !.at = "killed"]
    /\ error' = "killed"
    /\ UNCHANGED <<boundaries, loaded, warnings, partial, stages, clip_result, last, before,
                   written, elections, fixes, report, norm, coastline>>

\* --- inputs of the clip: the coastline, the mask it gives, and the document
\* of 1955; 1974 has the default document and the other files are not there
MaxClipFeatures == 2    \* features per document, clip inputs

ClipRing == << <<0, 0>>, <<4, 0>>, <<4, 5>>, <<0, 0>> >>
ShortRing == << <<0, 0>>, <<4, 5>>, <<0, 0>> >>
ClipGeometries ==
    {Polygon(<<ClipRing>>), Polygon(<<ShortRing>>), MultiPolygon(<< <<ClipRing>> >>),
     MultiPolygon(<< <<ClipRing>>, <<ClipRing>> >>), PointGeometry}
ClipInputFeatures ==
    {Feature("EC_ABERAVON", Ayr, AyrLower, g) : g \in ClipGeometries}
    \cup {Feature("EC_ORKNEY_AND_SHETLAND", Ayr, AyrLower, Polygon(<<ClipRing>>))}

InitClip ==
    /\ \E fs \in SeqsUpTo(ClipInputFeatures, MaxClipFeatures) :
          boundaries = [w \in Versions |->
              IF w = "1955" THEN BoundaryFile(fs)
              ELSE IF w = "1974"
              THEN BoundaryFile(<<Feature("EC_ABERAVON", Ayr, AyrLower, Polygon(<<ClipRing>>))>>)
              ELSE AbsentBoundary]
    /\ \/ \E m \in MaskKinds : coastline = [exists |-> TRUE, mask |-> m]
       \/ coastline = [exists |-> FALSE, mask |-> "none"]
    /\ elections = DefaultElections
    /\ last = "none"
    /\ before = Snapshot
    /\ written = {}
    /\ fixes = NoFixes
    /\ report = NoReport
    /\ error = "none"
    /\ loaded = NoDocument
    /\ pc = NoScript
    /\ warnings = <<>>
    /\ partial = {}
    /\ stages = <<>>
    /\ clip_result = <<>>
    /\ norm = NoNorm

NextClip ==
    \/ ClipStart
    \/ ClipSkip
    \/ ClipLoad
    \/ ClipOpen
    \/ ClipDump
    \/ ClipDone
    \/ Interrupt

SpecClip == InitClip /\ [][NextClip]_vars

\* --- properties of the clip

\* the document clip_boundary_file has loaded, as it is on disk
ClipInput == boundaries[BOUNDARY_VERSIONS[pc.i]].features

\* make_valid and intersection gave no polygon to keep
ClipFailed(feature) ==
    LET clipped == Intersection(feature.geometry, coastline.mask)
    IN  clipped.raised \/ clipped.value.is_empty \/ extract_polygons(clipped.value) = <<>>

ClipWarnings == {"intersection failed", "empty intersection", "no polygon parts"}

\* C13: without the land-mask file the clip exits with a failure before it
\* reads, changes or writes a boundary document: every boundary document is
\* as it was before the run.
C13_NoCoastlineNoMutation ==
    (pc.script = "clip" /\ ~coastline.exists) =>
        /\ pc.at = "exit"
        /\ error = "SystemExit"
        /\ boundaries = before.boundaries
        /\ written = {}
        /\ partial = {}
        /\ loaded = NoDocument
        /\ clip_result = <<>>
        /\ stages = <<>>

\* the clip has exited although boundary documents with features are there
C13_Witness ==
    /\ At("clip", "exit")
    /\ ~coastline.exists
    /\ Len(boundaries["1955"].features) = MaxClipFeatures
    /\ boundaries["1974"].exists

\* C14: a feature whose geometry shape() cannot parse is skipped with its
\* geometry unchanged, a warning is recorded for it, and the other features
\* of the document are still processed.
C14_UnparseableSkippedWithWarning ==
    At("clip", "write") =>
        \A k \in 1..Len(ClipInput) :
            ShapeFails(ClipInput[k].geometry) =>
                /\ Len(loaded.features) = Len(ClipInput)
                /\ loaded.features[k] = ClipInput[k]
                /\ \E i \in 1..Len(loaded.warnings) : loaded.warnings[i].fid = ClipInput[k].id
                /\ \A j \in 1..Len(ClipInput) :
                      ~ShapeFails(ClipInput[j].geometry) =>
                          loaded.features[j] = ClipFeature(ClipInput[j], coastline.mask).feature

\* C15: when the intersection raises, is empty or leaves no polygon above
\* the area threshold, the geometry of the feature is unchanged and a warning
\* names the feature; in every case the clipped document has the features of
\* the input, in their order and with their properties.
C15_FailedClipKeepsFeature ==
    /\ At("clip", "write") =>
          /\ Len(loaded.features) = Len(ClipInput)
          /\ \A k \in 1..Len(ClipInput) :
                /\ [loaded.features[k] EXCEPT !.geometry = ClipInput[k].geometry] = ClipInput[k]
                /\ (~ShapeFails(ClipInput[k].geometry) /\ ClipFailed(ClipInput[k])) =>
                      /\ loaded.features[k].geometry = ClipInput[k].geometry
                      /\ \E i \in 1..Len(loaded.warnings) :
                            /\ loaded.warnings[i].fid = ClipInput[k].id
                            /\ loaded.warnings[i].kind \in ClipWarnings
          /\ Len(loaded.warnings) =
                Cardinality({k \in 1..Len(ClipInput) :
                                ~ShapeFails(ClipInput[k].geometry) /\ ClipFailed(ClipInput[k])})
    /\ pc.script = "clip" =>
          \A v \in Versions :
              /\ Len(boundaries[v].features) = Len(before.boundaries[v].features)
              /\ \A k \in 1..Len(boundaries[v].features) :
                    [boundaries[v].features[k] EXCEPT
                        !.geometry = before.boundaries[v].features[k].geometry]
                    = before.boundaries[v].features[k]

\* a document with a feature that was clipped and one that got a warning
C15_Witness ==
    /\ At("clip", "write")
    /\ Len(ClipInput) = 2
    /\ loaded.modified_count = 1
    /\ Len(loaded.warnings) = 1
    /\ \E k \in 1..2 : ~ShapeFails(ClipInput[k].geometry) /\ ClipFailed(ClipInput[k])

AllRounded(geometry_dict) ==
    \A p \in 1..Len(PolygonsOf(geometry_dict)) :
        \A i \in 1..Len(PolygonsOf(geometry_dict)[p]) :
            \A k \in 1..Len(PolygonsOf(geometry_dict)[p][i]) :
                /\ PolygonsOf(geometry_dict)[p][i][k][1] % Precision = 0
                /\ PolygonsOf(geometry_dict)[p][i][k][2] % Precision = 0

\* the clip of a feature gave polygons of another type or number of points
ClipDiffers(feature) ==
    LET result_dict == ResultDict(extract_polygons(
                           Intersection(feature.geometry, coastline.mask).value))
    IN  \/ result_dict.type # feature.geometry.type
        \/ clip_count_coords(result_dict) # clip_count_coords(feature.geometry)

\* C16: a feature counts as modified, and its geometry becomes the clipped
\* and rounded geometry, only if the type or the number of points of the
\* clipped geometry differs from the input's; otherwise its geometry is
\* exactly the input geometry and the counter is not incremented.
C16_ModifiedOnlyIfTypeOrCountDiffers ==
    At("clip", "write") =>
        LET clippable == {k \in 1..Len(ClipInput) :
                             ~ShapeFails(ClipInput[k].geometry) /\ ~ClipFailed(ClipInput[k])}
            changed == {k \in clippable : ClipDiffers(ClipInput[k])}
        IN  /\ loaded.modified_count = Cardinality(changed)
            /\ \A k \in 1..Len(ClipInput) :
                  IF k \in changed
                  THEN /\ loaded.features[k].geometry =
                              ResultDict(extract_polygons(
                                  Intersection(ClipInput[k].geometry, coastline.mask).value))
                       /\ AllRounded(loaded.features[k].geometry)
                       /\ \/ loaded.features[k].geometry.type # ClipInput[k].geometry.type
                          \/ clip_count_coords(loaded.features[k].geometry)
                                # clip_count_coords(ClipInput[k].geometry)
                  ELSE loaded.features[k].geometry = ClipInput[k].geometry

\* a mask that moves the points of a polygon and keeps their number, in a
\* document whose other feature changes its type
C16_Witness ==
    /\ At("clip", "write")
    /\ coastline.mask = "shift"
    /\ Len(ClipInput) = 2
    /\ loaded.modified_count = 1
    /\ \E k \in 1..2 :
          /\ ClipInput[k].geometry.type = "Polygon"
          /\ ~ShapeFails(ClipInput[k].geometry)
          /\ loaded.features[k] = ClipInput[k]

\* the polygons at the leaves of a geometry value, in the order met
RECURSIVE LeavesOf(_)
RECURSIVE LeavesFrom(_, _)
LeavesFrom(geoms, i) ==
    IF i > Len(geoms) THEN <<>> ELSE LeavesOf(geoms[i]) \o LeavesFrom(geoms, i + 1)
LeavesOf(g) ==
    IF g.geom_type = "Polygon" THEN <<g>> ELSE LeavesFrom(g.geoms, 1)

\* C23: the clipped geometry of a feature is made of exactly the polygon
\* parts of the intersection whose area is at least MIN_AREA, found through
\* nested collections, lines and points left out, in the order met: a Polygon
\* when one part remains, a MultiPolygon of all of them when more remain; no
\* part with a smaller area is in it.
C23_PolygonPartsAboveThreshold ==
    At("clip", "write") =>
        \A k \in 1..Len(ClipInput) :
            LET clipped == Intersection(ClipInput[k].geometry, coastline.mask)
                parts == SelectSeq(LeavesOf(clipped.value),
                                   LAMBDA g : ~g.is_empty /\ g.area >= MIN_AREA)
                expected ==
                    IF Len(parts) = 1
                    THEN [type |-> "Polygon", coordinates |-> RoundRings(parts[1].rings)]
                    ELSE [type |-> "MultiPolygon",
                          coordinates |-> [p \in 1..Len(parts) |-> RoundRings(parts[p].rings)]]
                stored == loaded.features[k].geometry
            IN  (~ShapeFails(ClipInput[k].geometry) /\ ~clipped.raised) =>
                    IF parts = <<>> THEN stored = ClipInput[k].geometry
                    ELSE \/ stored = expected
                         \/ /\ stored = ClipInput[k].geometry
                            /\ expected.type = stored.type
                            /\ clip_count_coords(expected) = clip_count_coords(stored)

\* an intersection that is a collection of a polygon, a sliver and a line:
\* the polygon alone is stored
C23_Witness ==
    /\ At("clip", "write")
    /\ coastline.mask = "islands"
    /\ \E k \in 1..Len(ClipInput) :
          /\ ClipInput[k].geometry.type = "MultiPolygon"
          /\ ~ShapeFails(ClipInput[k].geometry)
          /\ loaded.features[k].geometry.type = "Polygon"
          /\ loaded.features[k].geometry # ClipInput[k].geometry
    /\ loaded.modified_count >= 1

\* C18: at every point of a run, a failure or an interruption during a
\* write included, every persisted document is complete: the document before
\* the stage or the document after it, never a truncated one.
C18_AtomicWrites ==
    \A v \in Versions : v \notin partial

HandlerNames ==
    {"fix_election_files", "fix_boundary_files", "fix_winding_order", "sync_boundary_names",
     "main"}

\* C20: a stage writes the file of a document only if it modified the
\* document; validate writes no file.
C20_WriteOnlyIfModified ==
    /\ pc.script = "clip" =>
          \A i \in 1..Len(clip_result) :
              <<"boundaries", clip_result[i].version>> \in written =>
                  /\ clip_result[i].modified > 0
                  /\ boundaries[clip_result[i].version]
                        # before.boundaries[clip_result[i].version]
    /\ last \in HandlerNames =>
          \A f \in written :
              IF f[1] = "boundaries" THEN boundaries[f[2]] # before.boundaries[f[2]]
              ELSE elections[f[2]] # before.elections[f[2]]
    /\ last = "validate" => written = {}

----------------------------------------------------------------------------
(* The two scripts as runs: clip_to_coastline.py and main of fix_data.py,   *)
(* one stage at a time                                                      *)

\* a main that rewinds before it reconciles
MainStagesOrientationFirst ==
    <<"fix_election_files", "fix_winding_order", "fix_boundary_files", "sync_boundary_names",
      "validate">>

\* lines 616-630: the calls of main in their order
MainStages ==
    <<"fix_election_files", "fix_boundary_files", "fix_winding_order", "sync_boundary_names",
      "validate">>

ExistingVersions(bnds) == SelectSeq(VersionOrder, LAMBDA v : bnds[v].exists)
ExistingYears(elecs) == SelectSeq(YearOrder, LAMBDA y : elecs[y].exists)

\* the documents a stage opens and gets through, in the order of its loop
StageDocuments(stage, bnds, elecs) ==
    CASE stage = "fix_election_files" -> ExistingYears(elecs)
      [] stage = "fix_boundary_files" -> ExistingVersions(bnds)
      [] stage = "fix_winding_order" -> ExistingVersions(bnds)
      [] stage = "sync_boundary_names" ->
            IF \E y \in Years : ~elecs[y].exists THEN <<>>
            ELSE SubSeq(VersionOrder, 1, FirstMissingBoundary(bnds) - 1)
      [] OTHER ->
            [i \in 1..(FirstMissingYear(bnds, elecs) - 1) |-> year_to_boundary[YearOrder[i]]]

\* the call of one stage: what it leaves on disk, returns and raises
RunStage(stage, bnds, elecs) ==
    CASE stage = "fix_election_files" ->
            LET r == fix_election_files(elecs)
            IN  [boundaries |-> bnds, elections |-> r.elections, written |-> r.written,
                 fixes |-> r.fixes, report |-> NoReport, error |-> "none"]
      [] stage = "fix_boundary_files" ->
            LET r == fix_boundary_files(bnds)
            IN  [boundaries |-> r.boundaries, elections |-> elecs, written |-> r.written,
                 fixes |-> r.fixes, report |-> NoReport, error |-> "none"]
      [] stage = "fix_winding_order" ->
            LET r == fix_winding_order(bnds)
            IN  [boundaries |-> r.boundaries, elections |-> elecs, written |-> r.written,
                 fixes |-> r.fixes, report |-> NoReport, error |-> "none"]
      [] stage = "sync_boundary_names" ->
            LET r == sync_boundary_names(bnds, elecs)
            IN  [boundaries |-> r.boundaries, elections |-> elecs, written |-> r.written,
                 fixes |-> r.fixes, report |-> NoReport, error |-> r.error]
      [] OTHER ->
            LET r == validate(bnds, elecs)
            IN  [boundaries |-> bnds, elections |-> elecs, written |-> {},
                 fixes |-> -1, report |-> r.report, error |-> r.error]

FixesAfter(stage, n) ==
    CASE stage = "fix_election_files" -> [fixes EXCEPT !.e = n]
      [] stage = "fix_boundary_files" -> [fixes EXCEPT !.b = n]
      [] stage = "fix_winding_order" -> [fixes EXCEPT !.w = n]
      [] stage = "sync_boundary_names" -> [fixes EXCEPT !.n = n]
      [] OTHER -> fixes

StagesOf(names) == {i \in 1..Len(stages) : stages[i][1] \in names}

\* python3 fix_data.py, on raw documents or after the clip
MainStart ==
    /\ pc = NoScript \/ At("clip", "done")
    /\ StagesOf({MainStages[i] : i \in 1..Len(MainStages)}) = {}
    /\ pc' = [script |-> "fix_data", at |-> "run", i |-> 1]
    /\ fixes' = NoFixes
    /\ report' = NoReport
    /\ error' = "none"
    /\ UNCHANGED <<boundaries, elections, last, before, written, coastline, loaded, warnings,
                   partial, stages, clip_result, norm>>

\* one call of main, lines 616-630; an exception of the stage ends the run
MainStep ==
    /\ At("fix_data", "run")
    /\ pc.i <= Len(MainStages)
    /\ \E r \in {RunStage(MainStages[pc.i], boundaries, elections)},
          docs \in {StageDocuments(MainStages[pc.i], boundaries, elections)} :
          /\ boundaries' = r.boundaries
          /\ elections' = r.elections
          /\ written' = r.written
          /\ fixes' = FixesAfter(MainStages[pc.i], r.fixes)
          /\ report' = r.report
          /\ error' = r.error
          /\ stages' = stages \o [k \in 1..Len(docs) |-> <<MainStages[pc.i], docs[k]>>]
          /\ pc' = IF r.error = "none" THEN [pc EXCEPT !.i = @ + 1]
                   ELSE [pc EXCEPT !.at = "raised"]
    /\ last' = MainStages[pc.i]
    /\ before' = Snapshot
    /\ UNCHANGED <<coastline, loaded, warnings, partial, clip_result, norm>>

\* line 630: validate has returned
MainDone ==
    /\ At("fix_data", "run")
    /\ pc.i > Len(MainStages)
    /\ pc' = [pc EXCEPT !.at = "done"]
    /\ UNCHANGED <<boundaries, elections, last, before, written, fixes, report, error,
                   coastline, loaded, warnings, partial, stages, clip_result, norm>>

\* --- inputs of the runs: a document with a ring to rewind and an identifier
\* to rename, a boundary file or an election file that is not there

AbsentElection(y) == [DefaultElection(y) EXCEPT !.exists = FALSE]

PipelineFeatures ==
    {<<Feature("EC_ABERAVON", Ayr, AyrLower, Polygon(<<RingCW>>))>>,
     <<Feature("EC_ABERAVON", AyrN, AyrNLower, Polygon(<<RingCCW>>))>>,
     <<Feature("EC_", Ayr, AyrLower, Polygon(<<RingCCW>>)),
       Feature("EC_ABERAVON", Ayr, AyrLower, Polygon(<<ShortRing>>))>>}

PipelineMissing == {"none", "1974"}
PipelineMissingYears == {"none", "1959"}
PipelineMasks == {"all", "coast"}

InitPipeline ==
    /\ \E fs \in PipelineFeatures, gone \in PipelineMissing :
          boundaries = [w \in Versions |->
              IF w = gone THEN AbsentBoundary
              ELSE IF w = "1955" THEN BoundaryFile(fs)
              ELSE DefaultBoundary]
    /\ \E gone \in PipelineMissingYears :
          elections = [y \in Years |-> IF y = gone THEN AbsentElection(y) ELSE DefaultElection(y)]
    /\ \/ \E m \in PipelineMasks : coastline = [exists |-> TRUE, mask |-> m]
       \/ coastline = [exists |-> FALSE, mask |-> "none"]
    /\ last = "none"
    /\ before = Snapshot
    /\ written = {}
    /\ fixes = NoFixes
    /\ report = NoReport
    /\ error = "none"
    /\ InitRun
    /\ norm = NoNorm

NextPipeline ==
    \/ ClipStart
    \/ ClipSkip
    \/ ClipLoad
    \/ ClipOpen
    \/ ClipDump
    \/ ClipDone
    \/ Interrupt
    \/ MainStart
    \/ MainStep
    \/ MainDone

SpecPipeline == InitPipeline /\ [][NextPipeline]_vars

\* --- properties of the runs

BoundaryStages ==
    {"clip", "fix_boundary_files", "fix_winding_order", "sync_boundary_names", "validate"}

\* the place of a stage in the data flow: clipper, orientation normalizer,
\* reconciliation, name sync, validator
FlowRank(stage) ==
    CASE stage = "clip" -> 1
      [] stage = "fix_winding_order" -> 2
      [] stage = "fix_boundary_files" -> 3
      [] stage = "sync_boundary_names" -> 4
      [] OTHER -> 5

\* the place of a stage in the calls of main
CallRank(stage) ==
    CASE stage = "fix_election_files" -> 1
      [] stage = "fix_boundary_files" -> 2
      [] stage = "fix_winding_order" -> 3
      [] stage = "sync_boundary_names" -> 4
      [] OTHER -> 5

\* C17: on every boundary document the stages are applied in the order
\* clip, ring orientation, identifier reconciliation, name sync, validation:
\* no stage is applied to a document after a later stage of this order was.
C17_StageOrder ==
    \A i, j \in StagesOf(BoundaryStages) :
        (i < j /\ stages[i][2] = stages[j][2]) =>
            FlowRank(stages[i][1]) <= FlowRank(stages[j][1])

\* C17, as the code has it: in a run of fix_data.py the stages are applied in
\* the order of the calls of main (fix_election_files, fix_boundary_files,
\* fix_winding_order, sync_boundary_names, validate), each stage ending on
\* all its documents before the next one starts on any; every stage that runs
\* has the stages before it behind it on each document that is there.
C17_StageOrderOfMain ==
    LET ran == StagesOf({"fix_election_files"} \cup (BoundaryStages \ {"clip"}))
    IN  /\ \A i, j \in ran : i < j => CallRank(stages[i][1]) <= CallRank(stages[j][1])
        /\ \A j \in ran :
              \A s \in {"fix_boundary_files", "fix_winding_order"} :
                  (CallRank(s) < CallRank(stages[j][1]) /\ stages[j][2] \in Versions) =>
                      \E i \in 1..(j - 1) : stages[i] = <<s, stages[j][2]>>

\* main has returned after a clip; a document went through every stage
C17_Witness ==
    /\ At("fix_data", "done")
    /\ \A s \in BoundaryStages : \E i \in 1..Len(stages) : stages[i] = <<s, "1955">>
    /\ fixes.w > 0

\* C19: a document that is missing never ends the run: the stage reports it
\* and goes on, every document that is there is processed by the stage and by
\* the later stages.
C19_MissingDocumentSkipped ==
    /\ pc.script = "fix_data" => (pc.at # "raised" /\ error = "none")
    /\ At("fix_data", "done") =>
          /\ \A s \in BoundaryStages \ {"clip"} : \A v \in Versions :
                boundaries[v].exists => \E i \in 1..Len(stages) : stages[i] = <<s, v>>
          /\ report.complete
    /\ At("clip", "done") =>
          \A v \in Versions :
              IF boundaries[v].exists
              THEN \E i \in 1..Len(stages) : stages[i] = <<"clip", v>>
              ELSE \E i \in 1..Len(warnings) :
                      warnings[i] = [kind |-> "file not found, skipping", fid |-> v]

----------------------------------------------------------------------------
(* clip_to_coastline.py run a second time on the documents it has written, *)
(* with the same land mask                                                 *)

Runs == Cardinality(StagesOf({"load_land_mask"}))

\* python3 clip_to_coastline.py once more: lines 174-181 again
ClipRerun ==
    /\ At("clip", "done")
    /\ Runs = 1
    /\ ~CoastlineMissing
    /\ pc' = [script |-> "clip", at |-> "loop", i |-> 1]
    /\ error' = "none"
    /\ stages' = Append(stages, <<"load_land_mask", "">>)
    /\ last' = "clip_to_coastline"
    /\ before' = Snapshot
    /\ written' = {}
    /\ warnings' = <<>>
    /\ clip_result' = <<>>
    /\ UNCHANGED <<boundaries, loaded, partial, elections, fixes, report, norm, coastline>>

\* --- inputs: a rectangle of raw coordinates, and a triangle

Rectangle(x0, y0, x1, y1) ==
    << <<x0, y0>>, <<x1, y0>>, <<x1, y1>>, <<x0, y1>>, <<x0, y0>> >>

\* a bay: the corner of <<17, 6>> is at sea, the point <<8, y>> is on the shore
Bay(y) ==
    << <<0, 0>>, <<17, 0>>, <<17, 6>>, <<11, 6>>, <<8, y>>, <<0, y>>, <<0, 0>> >>

ReclipRings ==
    {Rectangle(0, 0, x1, y1) : x1 \in {15, 17}, y1 \in {9, 12}}
    \cup {Bay(y) : y \in {9, 11, 12}}

InitReclip ==
    /\ \E ring \in ReclipRings :
          boundaries = [w \in Versions |->
              IF w = "1955"
              THEN BoundaryFile(<<Feature("EC_ABERAVON", Ayr, AyrLower, Polygon(<<ring>>))>>)
              ELSE IF w = "1974"
              THEN BoundaryFile(<<Feature("EC_ABERAVON", Ayr, AyrLower, Polygon(<<ClipRing>>))>>)
              ELSE AbsentBoundary]
    /\ \E m \in HalfPlaneMasks : coastline = [exists |-> TRUE, mask |-> m]
    /\ elections = DefaultElections
    /\ last = "none"
    /\ before = Snapshot
    /\ written = {}
    /\ fixes = NoFixes
    /\ report = NoReport
    /\ error = "none"
    /\ InitRun
    /\ norm = NoNorm

NextReclip ==
    \/ ClipStart
    \/ ClipSkip
    \/ ClipLoad
    \/ ClipOpen
    \/ ClipDump
    \/ ClipDone
    \/ ClipRerun

SpecReclip == InitReclip /\ [][NextReclip]_vars

\* C21: the clip is idempotent: the second clip of a document with the same
\* land mask gives every feature a geometry of the type and the number of
\* points it had after the first clip, and counts no feature as modified.
C21_ClipIdempotent ==
    (At("clip", "write") /\ Runs = 2) =>
        /\ loaded.modified_count = 0
        /\ \A k \in 1..Len(ClipInput) :
              /\ loaded.features[k].geometry.type = ClipInput[k].geometry.type
              /\ clip_count_coords(loaded.features[k].geometry)
                    = clip_count_coords(ClipInput[k].geometry)

----------------------------------------------------------------------------
(* normalize_name of normalize_constituencies.py *)

\* pat is in s at position i
StartsAt(s, i, pat) ==
    /\ i + Len(pat) - 1 <= Len(s)
    /\ \A m \in 1..Len(pat) : s[i + m - 1] = pat[m]

\* pat in s
Contains(s, pat) == \E i \in 1..Len(s) : StartsAt(s, i, pat)

\* s.replace(pat, repl), scanning from position i; pat is not empty
RECURSIVE Replace(_, _, _, _)
Replace(s, i, pat, repl) ==
    IF i > Len(s) THEN <<>>
    ELSE IF StartsAt(s, i, pat) THEN repl \o Replace(s, i + Len(pat), pat, repl)
    ELSE <<s[i]>> \o Replace(s, i + 1, pat, repl)

\* the position of the first ")" of s after position j, 0 when there is none
CloseParenAfter(s, j) ==
    IF \E k \in (j + 1)..Len(s) : s[k] = ")"
    THEN CHOOSE k \in (j + 1)..Len(s) : s[k] = ")" /\ \A m \in (j + 1)..(k - 1) : s[m] # ")"
    ELSE 0

\* re.sub(r'\s*\([^)]*\)', '', s), scanning from position i
RECURSIVE RemoveParens(_, _)
RemoveParens(s, i) ==
    IF i > Len(s) THEN <<>>
    ELSE LET j == i + SpaceRun(s, i)
         IN  IF j <= Len(s) /\ s[j] = "(" /\ CloseParenAfter(s, j) > 0
             THEN RemoveParens(s, CloseParenAfter(s, j) + 1)
             ELSE <<s[i]>> \o RemoveParens(s, i + 1)

\* the three Welsh letters of line 26, each one character
WelshLetter(c) ==
    CASE c = "o-circumflex" -> "o"
      [] c = "y-circumflex" -> "y"
      [] c = "a-circumflex" -> "a"
      [] OTHER -> c

\* str.split(): the words between runs of whitespace, from position i
RECURSIVE WordEnd(_, _)
WordEnd(s, i) == IF i <= Len(s) /\ ~IsSpace(s[i]) THEN WordEnd(s, i + 1) ELSE i
RECURSIVE Split(_, _)
Split(s, i) ==
    IF i > Len(s) THEN <<>>
    ELSE IF IsSpace(s[i]) THEN Split(s, i + 1)
    ELSE <<SubSeq(s, i, WordEnd(s, i) - 1)>> \o Split(s, WordEnd(s, i))

\* the characters in the order of their code points
CodeOrder ==
    <<"\t", "\n", "\r", " ", "&", "(", ")", ",", "-">> \o Digits \o UpperCase \o <<"_">>
    \o LowerCase \o <<"a-circumflex", "o-circumflex", "y-circumflex">>
CodePoint(c) == CHOOSE i \in 1..Len(CodeOrder) : CodeOrder[i] = c

\* a <= b for two str
RECURSIVE WordLeq(_, _)
WordLeq(a, b) ==
    IF a = <<>> THEN TRUE
    ELSE IF b = <<>> THEN FALSE
    ELSE IF a[1] = b[1] THEN WordLeq(Tail(a), Tail(b))
    ELSE CodePoint(a[1]) < CodePoint(b[1])

\* sorted(words)
RECURSIVE InsertWord(_, _)
InsertWord(w, sorted) ==
    IF sorted = <<>> THEN <<w>>
    ELSE IF WordLeq(w, sorted[1]) THEN <<w>> \o sorted
    ELSE <<sorted[1]>> \o InsertWord(w, Tail(sorted))
RECURSIVE SortWords(_)
SortWords(words) ==
    IF words = <<>> THEN <<>>
    ELSE InsertWord(words[1], SortWords(Tail(words)))

\* ' '.join(words)
RECURSIVE Join(_)
Join(words) ==
    IF words = <<>> THEN <<>>
    ELSE IF Len(words) = 1 THEN words[1]
    ELSE words[1] \o <<" ">> \o Join(Tail(words))

CommaCityOf == <<",", " ", "c", "i", "t", "y", " ", "o", "f">>
CityOf == <<"c", "i", "t", "y", " ", "o", "f", " ">>
CommaThe == <<",", " ", "t", "h", "e">>
The == <<"t", "h", "e", " ">>
KingstonUponHull ==
    <<"k", "i", "n", "g", "s", "t", "o", "n", " ", "u", "p", "o", "n", " ", "h", "u", "l", "l">>
Hull == <<"h", "u", "l", "l">>
And == <<" ", "a", "n", "d", " ">>
Amp == <<" ", "&", " ">>

normalize_name(name) ==
    LET n1 == RemoveParens(lower(name), 1)
        n2 == IF Contains(n1, CommaCityOf) THEN CityOf \o Replace(n1, 1, CommaCityOf, <<>>)
              ELSE n1
        n3 == IF Contains(n2, CommaThe) THEN The \o Replace(n2, 1, CommaThe, <<>>) ELSE n2
        n4 == Replace(n3, 1, KingstonUponHull, Hull)
        n5 == Replace([i \in 1..Len(n4) |-> WelshLetter(n4[i])], 1, <<",">>, <<>>)
        n6 == Join(SortWords(Split(n5, 1)))
        n7 == Replace(n6, 1, And, <<" ">>)
        n8 == Replace(n7, 1, Amp, <<" ">>)
        n9 == Replace(n8, 1, The, <<>>)
    IN  strip(CollapseSpaces(ReplaceHyphen(n9), 1))

\* --- inputs: names of a few words, and the same words turned round

MaxWords == 3
NameWords ==
    {<<"A", "y", "r">>, <<"a", "n", "d">>, <<"C", "a", "r", "r", "i", "c", "k">>,
     <<"T", "h", "e">>, <<"E", "a", "s", "t">>, <<"A", "n", "t", "r", "i", "m">>}

InitNormalizeName ==
    /\ \E words \in NonEmptySeqsUpTo(NameWords, MaxWords) :
          norm = [NoNorm EXCEPT !.x = Join(words), !.y = Join(Reverse(words))]
    /\ boundaries = [w \in Versions |-> DefaultBoundary]
    /\ elections = DefaultElections
    /\ InitHandlers

\* normalize_name of the name and of the name turned round
NormalizeName ==
    /\ ~norm.done
    /\ \E nx \in {normalize_name(norm.x)} :
          norm' = [norm EXCEPT !.nx = nx,
                               !.ny = normalize_name(norm.y),
                               !.nnx = normalize_name(nx),
                               !.done = TRUE]
    /\ UNCHANGED <<boundaries, elections, last, before, written, fixes, report, error>>
    /\ UNCHANGED <<coastline, pc, loaded, warnings, partial, stages, clip_result>>

NextNormalizeName == NormalizeName
SpecNormalizeName == InitNormalizeName /\ [][NextNormalizeName]_vars

LinkingWords == {<<"a", "n", "d">>, <<"t", "h", "e">>}

\* C22: normalize_name drops the linking words and does not depend on the
\* order of the words: its result has no word "and" and no word "the", and
\* two names of the same words in another order have the same result.
C22_LinkingWordsDropped ==
    norm.done =>
        /\ \A i \in 1..Len(Split(norm.nx, 1)) : Split(norm.nx, 1)[i] \notin LinkingWords
        /\ norm.nx = norm.ny

----------------------------------------------------------------------------
(* process_ec_data.py: the result documents made from the raw files, then  *)
(* fix_election_files                                                      *)

\* FILE_MAPPINGS by the year of the file: boundaryVersion; the output file
\* is named after the year
FILE_MAPPINGS ==
    [y \in Years |->
        [year |-> YearNumber[y],
         boundaryVersion |->
            IF y \in {"1955", "1959", "1964", "1966", "1970"} THEN "1950"
            ELSE IF y \in {"197402", "197410", "1979"} THEN "1974"
            ELSE IF y \in {"1983", "1987", "1992"} THEN "1983"
            ELSE IF y \in {"1997", "2001", "2005"} THEN "1997"
            ELSE IF y \in {"2010", "2015", "2017", "2019"} THEN "2010"
            ELSE "2024"]]

\* display_year = year // 100 if year > 100000 else year
DisplayYear(year) == IF year > 100000 THEN year \div 100 ELSE year

\* str.upper() on one character
UpperChar(c) ==
    IF InSeq(c, LowerCase)
    THEN UpperCase[CHOOSE i \in 1..Len(LowerCase) : LowerCase[i] = c]
    ELSE c

\* re.sub(r'[^A-Z0-9]', '_', constituency_name.upper())
CleanName(name) ==
    [i \in 1..Len(name) |->
        IF InSeq(UpperChar(name[i]), UpperCase) \/ InSeq(UpperChar(name[i]), Digits)
        THEN UpperChar(name[i]) ELSE "_"]

Woodford == <<"W", "o", "o", "d", "f", "o", "r", "d">>
Aberavon == <<"A", "b", "e", "r", "a", "v", "o", "n">>
BaronsCourt == <<"B", "a", "r", "o", "n", "'", "s", " ", "C", "o", "u", "r", "t">>

\* f'EC_{clean_name}', as the identifier the model has for it
ConstituencyId(name) ==
    CASE CleanName(name) = <<"W", "O", "O", "D", "F", "O", "R", "D">> -> "EC_WOODFORD"
      [] CleanName(name) = <<"A", "B", "E", "R", "A", "V", "O", "N">> -> "EC_ABERAVON"
      [] CleanName(name) = <<"B", "A", "R", "O", "N", "_", "S", "_", "C", "O", "U", "R", "T">>
            -> "EC_BARON_S_COURT"
      [] OTHER -> "EC_"

\* parse_file: the document of the rows of a raw file
parse_file(rows, metadata) ==
    [exists |-> TRUE,
     boundaryVersion |-> metadata.boundaryVersion,
     year |-> DisplayYear(metadata.year),
     constituencies |->
        [k \in 1..Len(rows) |->
            Constituency(ConstituencyId(rows[k]), rows[k], DisplayYear(metadata.year))]]

\* main of process_ec_data.py: the raw files that are found and have rows
\* are written as result documents
process_ec_data(elecs, found, rows) ==
    LET made == IF rows = <<>> THEN {} ELSE found
    IN  [elections |-> [y \in Years |->
                           IF y \in made THEN parse_file(rows, FILE_MAPPINGS[y]) ELSE elecs[y]],
         written |-> {<<"elections", y>> : y \in made},
         made |-> SelectSeq(YearOrder, LAMBDA y : y \in made)]

MaxRawRows == 2
RawNames == {Woodford, Aberavon, BaronsCourt}
RawFound == {Years, {"1955", "197402", "2005"}, {"1959", "2024"}, {}}

ProcessEcData ==
    /\ StagesOf({"process_ec_data"}) = {}
    /\ \E found \in RawFound, rows \in SeqsUpTo(RawNames, MaxRawRows) :
       \E r \in {process_ec_data(elections, found, rows)} :
          /\ elections' = r.elections
          /\ written' = r.written
          /\ stages' = stages \o [k \in 1..Len(r.made) |-> <<"process_ec_data", r.made[k]>>]
    /\ last' = "process_ec_data"
    /\ before' = Snapshot
    /\ fixes' = NoFixes
    /\ report' = NoReport
    /\ error' = "none"
    /\ UNCHANGED <<boundaries, coastline, pc, loaded, warnings, partial, clip_result, norm>>

InitBootstrap ==
    /\ \/ elections = [y \in Years |-> AbsentElection(y)]
       \/ elections = DefaultElections
    /\ boundaries = [w \in Versions |-> DefaultBoundary]
    /\ InitRest

NextBootstrap ==
    \/ ProcessEcData
    \/ FixElectionFiles

SpecBootstrap == InitBootstrap /\ [][NextBootstrap]_vars

\* the years whose result document process_ec_data has made
Made == {stages[i][2] : i \in StagesOf({"process_ec_data"})}

\* C24: once process_ec_data has made the result documents and
\* fix_election_files has run, the boundaryVersion of every result document
\* is the boundary era sync_boundary_names and validate map its election to,
\* and fix_election_files run again changes no document.
C24_BoundaryVersionAgrees ==
    last = "fix_election_files" =>
        /\ \A y \in Made : elections[y].boundaryVersion = year_to_boundary[y]
        /\ fix_election_files(elections).elections = elections
        /\ fix_election_files(elections).written = {}
        /\ fix_election_files(elections).fixes = 0

\* every raw file was there: the documents of 1955 and 2005 were made with
\* the eras 1950 and 1997, the document of February 1974 with the year 1974,
\* Woodford was renamed, and fix_election_files has rewritten them
C24_Witness ==
    /\ last = "fix_election_files"
    /\ Made = Years
    /\ before.elections["1955"].boundaryVersion = "1950"
    /\ before.elections["2005"].boundaryVersion = "1997"
    /\ before.elections["197402"].year = 1974
    /\ elections["197402"].year = 197402
    /\ \E k \in 1..Len(elections["1955"].constituencies) :
          elections["1955"].constituencies[k].constituencyId = "EC_WANSTEAD_AND_WOODFORD"
    /\ {<<"elections", "1955">>, <<"elections", "2005">>, <<"elections", "197402">>}
          \subseteq written

----------------------------------------------------------------------------
(* normalize_constituency_name on its own *)

MaxNameLen == 3      \* characters per name, normalizer inputs

NameAlphabet == {"N", "n", "E", "e", " ", "&", "-"}

AyrAmpCarrick == <<"A", "y", "r", " ", "&", " ", "C", "a", "r", "r", "i", "c", "k">>
AyrAndCarrick ==
    <<"a", "y", "r", " ", "a", "n", "d", " ", "c", "a", "r", "r", "i", "c", "k">>

\* the names that differ from x in the case of letters only
RECURSIVE CaseVariants(_)
CaseVariants(x) ==
    IF x = <<>> THEN {<<>>}
    ELSE {<<c>> \o r : c \in {d \in NameAlphabet : LowerChar(d) = LowerChar(x[1])},
                       r \in CaseVariants(Tail(x))}

InitNormalize ==
    /\ \/ \E x \in SeqsUpTo(NameAlphabet, MaxNameLen) : \E y \in CaseVariants(x) :
             norm = [NoNorm EXCEPT !.x = x, !.y = y]
       \/ norm = [NoNorm EXCEPT !.x = AyrAmpCarrick, !.y = AyrAndCarrick]
    /\ boundaries = [w \in Versions |-> DefaultBoundary]
    /\ elections = DefaultElections
    /\ InitHandlers

\* n = normalize_constituency_name(x), then normalize_constituency_name(n)
Normalize ==
    /\ ~norm.done
    /\ \E nx \in {normalize_constituency_name(norm.x)} :
          norm' = [norm EXCEPT !.nx = nx,
                               !.ny = normalize_constituency_name(norm.y),
                               !.nnx = normalize_constituency_name(nx),
                               !.done = TRUE]
    /\ UNCHANGED <<boundaries, elections, last, before, written, fixes, report, error>>
    /\ UNCHANGED <<coastline, pc, loaded, warnings, partial, stages, clip_result>>

NextNormalize == Normalize
SpecNormalize == InitNormalize /\ [][NextNormalize]_vars

\* C11: normalize_constituency_name applied to its own result returns that
\* result: normalize(normalize(x)) = normalize(x) for every name x.
C11_NormalizeIdempotent ==
    norm.done =>
        /\ norm.nnx = norm.nx
        /\ normalize_constituency_name(norm.ny) = norm.ny

\* a name that the normalizer changed by an expansion
C11_Witness ==
    /\ norm.done
    /\ Len(norm.nx) > Len(norm.x)
    /\ norm.nnx = norm.nx

\* C12: two names that differ only in the case of letters have the same
\* normalized name, and so have 'Ayr & Carrick' and 'ayr and carrick'.
C12_NormalizeCaseInsensitive ==
    norm.done =>
        /\ lower(norm.x) = lower(norm.y) => norm.nx = norm.ny
        /\ (norm.x = AyrAmpCarrick /\ norm.y = AyrAndCarrick) => norm.nx = norm.ny

====
